---------------------------- MODULE Spec2Model ----------------------------
(***************************************************************************)
(* DailyDraft (NFL trivia): the season-data cache, the question generator, *)
(* the eligibility filter and the scoring engine of src/game_logic.py, on  *)
(* top of the loader of src/load_nfl_data.py.                              *)
(*                                                                         *)
(* Cells of a table.  A numeric cell is a record [k, v]: k = "num" carries *)
(* the number v, "nan" is pandas' NaN / a missing value, "none" is         *)
(* Python's None and "junk" is an object float() and pd.to_numeric cannot  *)
(* convert (a string such as "abc").  A string cell (player_id, position,  *)
(* player_name) is a string, NA standing for a missing one.                *)
(***************************************************************************)
EXTENDS Integers, Sequences, FiniteSets, TLC

Num(n) == [k |-> "num", v |-> n]
NaN == [k |-> "nan", v |-> 0]
None == [k |-> "none", v |-> 0]
Junk == [k |-> "junk", v |-> 0]
NA == "<NA>"

Abs(n) == IF n < 0 THEN 0 - n ELSE n
CeilDiv(n, d) == (n + d - 1) \div d

(***************************************************************************)
(* Tables (pandas DataFrames): a set of column names and a sequence of     *)
(* rows, each row a function from the columns to cells.                    *)
(***************************************************************************)
StringCols ==
    {"player_id", "position", "first_name", "last_name", "player_name",
     "team", "pfr_player_id", "pfr_id", "gsis_id"}

\* The missing value of a column, and the test of isna().
Null(c) == IF c \in StringCols THEN NA ELSE NaN
IsNull(v, c) == IF c \in StringCols THEN v = NA ELSE v.k \in {"nan", "none"}

\* pd.DataFrame(): no columns, no rows.
EmptyDF == [cols |-> {}, rows |-> << >>]

\* DataFrame.empty: an axis of length 0.
IsEmptyDF(t) == t.cols = {} \/ Len(t.rows) = 0

\* df[cols]: the projection on columns the table has.
Project(t, cs) ==
    [cols |-> cs, rows |-> [i \in DOMAIN t.rows |-> [c \in cs |-> t.rows[i][c]]]]

\* df[df[col] == value]
WhereEq(t, col, value) ==
    [cols |-> t.cols, rows |-> SelectSeq(t.rows, LAMBDA r : r[col] = value)]

\* df.dropna(subset=...), for a subset of the table's columns.
DropNa(t, subset) ==
    [cols |-> t.cols,
     rows |-> SelectSeq(t.rows, LAMBDA r : \A c \in subset : ~IsNull(r[c], c))]

\* df.drop_duplicates(subset=[key], keep='first') on the rows.
RECURSIVE DedupRows(_, _, _)
DedupRows(rows, key, seen) ==
    IF rows = << >> THEN << >>
    ELSE IF Head(rows)[key] \in seen THEN DedupRows(Tail(rows), key, seen)
    ELSE <<Head(rows)>> \o DedupRows(Tail(rows), key, seen \cup {Head(rows)[key]})

\* A table that keeps every row of a key.
DropDuplicatesKeepAll(t, key) == t

\* df.drop_duplicates(subset=[key], keep='first').
DropDuplicates(t, key) == [cols |-> t.cols, rows |-> DedupRows(t.rows, key, {})]

RECURSIVE Flatten(_)
Flatten(seqs) ==
    IF seqs = << >> THEN << >> ELSE Head(seqs) \o Flatten(Tail(seqs))

\* pd.merge(left, right, left_on=lk, right_on=rk, how='left', suffixes=(ls, rs)):
\* every left row in order, once per right row with an equal key (in the
\* right table's order), or once with missing right cells when there is
\* none.  A column of both tables that is not the common key gets the
\* suffixes.  Missing keys match missing keys, as in pandas.
LeftMerge(left, right, lk, rk, ls, rs) ==
    LET key == IF lk = rk THEN {lk} ELSE {}
        overlap == (left.cols \cap right.cols) \ key
        rcols == right.cols \ key
        lname(c) == IF c \in overlap THEN c \o ls ELSE c
        rname(c) == IF c \in overlap THEN c \o rs ELSE c
        lnames == { lname(c) : c \in left.cols }
        cols == lnames \cup { rname(c) : c \in rcols }
        lsrc(n) == CHOOSE c \in left.cols : lname(c) = n
        rsrc(n) == CHOOSE c \in rcols : rname(c) = n
        joined(l, r) ==
            [n \in cols |-> IF n \in lnames THEN l[lsrc(n)] ELSE r[rsrc(n)]]
        alone(l) ==
            [n \in cols |-> IF n \in lnames THEN l[lsrc(n)] ELSE Null(rsrc(n))]
        match(l) == SelectSeq(right.rows, LAMBDA r : r[rk] = l[lk])
        out(l) == IF match(l) = << >> THEN <<alone(l)>>
                  ELSE [i \in DOMAIN match(l) |-> joined(l, match(l)[i])]
    IN  [cols |-> cols,
         rows |-> Flatten([i \in DOMAIN left.rows |-> out(left.rows[i])])]

(***************************************************************************)
(* The season-data loader, load_data_for_year.  The provider's answer to   *)
(* one import call is [ok, df]: ok = FALSE when the call raises.           *)
(***************************************************************************)
ROSTER_COLUMNS == {"player_id", "position", "first_name", "last_name", "player_name"}
GAME_POSITIONS == {"WR", "TE", "QB", "RB"}

\* Roster step: keep the known columns, filter the positions, drop rows with
\* a missing field, drop duplicate players.  dropna raises KeyError when one
\* of the five columns is absent; the except clause leaves an empty table.
LoadRosters(res) ==
    IF ~res.ok THEN EmptyDF
    ELSE LET kept == Project(res.df, ROSTER_COLUMNS \cap res.df.cols)
             inGame == IF "position" \in kept.cols
                       THEN [cols |-> kept.cols,
                             rows |-> SelectSeq(kept.rows,
                                          LAMBDA r : r["position"] \in GAME_POSITIONS)]
                       ELSE kept
         IN  IF ~(ROSTER_COLUMNS \subseteq inGame.cols) THEN EmptyDF
             ELSE DropDuplicates(DropNa(inGame, ROSTER_COLUMNS), "player_id")

\* Statistics step: the raw table, or an empty one when the call raises.
LoadSeasonal(res) == IF res.ok THEN res.df ELSE EmptyDF

\* A merge step that keeps the raw statistics when there is no roster.
MergeStatsUnguarded(all_seasonal_stats_df, rosters_df) ==
    IF IsEmptyDF(rosters_df) THEN all_seasonal_stats_df
    ELSE DropNa(LeftMerge(all_seasonal_stats_df,
                          Project(rosters_df, {"player_id", "position", "player_name"}),
                          "player_id", "player_id", "_x", "_y"),
                {"position"})

\* Merge step: the raw statistics left-joined with (player_id, position,
\* player_name) of the roster, rows without a position dropped.  A raw
\* statistics table with a position column of its own leaves position_x and
\* position_y: dropna raises KeyError and the table is empty.
MergeStatsWithRoster(all_seasonal_stats_df, rosters_df) ==
    IF /\ ~IsEmptyDF(all_seasonal_stats_df) /\ ~IsEmptyDF(rosters_df)
       /\ "player_id" \in all_seasonal_stats_df.cols
       /\ "player_id" \in rosters_df.cols
    THEN LET subset == Project(rosters_df, {"player_id", "position", "player_name"})
             merged == LeftMerge(all_seasonal_stats_df, subset,
                                 "player_id", "player_id", "_x", "_y")
         IN  IF "position" \notin merged.cols THEN EmptyDF
             ELSE DropNa(merged, {"position"})
    ELSE EmptyDF

\* The player ids of the model, in order (groupby sorts its keys).
PLAYER_IDS == <<"p1", "p2", "p3", "p4">>
RECURSIVE SumSnaps(_)
SumSnaps(rows) ==
    IF rows = << >> THEN 0
    ELSE (IF Head(rows)["offense_snaps"].k = "num"
          THEN Head(rows)["offense_snaps"].v ELSE 0) + SumSnaps(Tail(rows))

\* merged.groupby('gsis_id')['offense_snaps'].sum().reset_index(), renamed:
\* one row per id, in the order of the ids.
RECURSIVE GroupSnaps(_, _)
GroupSnaps(rows, rank) ==
    IF rank > Len(PLAYER_IDS) THEN << >>
    ELSE LET mine == SelectSeq(rows, LAMBDA r : r["gsis_id"] = PLAYER_IDS[rank])
         IN  (IF mine = << >> THEN << >>
              ELSE << [player_id |-> PLAYER_IDS[rank],
                       offense_snaps |-> Num(SumSnaps(mine))] >>)
             \o GroupSnaps(rows, rank + 1)

DefaultSnapCounts == [cols |-> {"player_id", "offense_snaps"}, rows |-> << >>]

\* Snap-count step: <<seasonal_snap_counts_df, raw_snap_counts_df>>.  Both
\* imports and the aggregation sit in one try block.  The offense_snaps cells
\* of the provider are numbers or missing (sum skips the missing ones).
LoadSnapCounts(snapsRes, idsRes) ==
    IF ~snapsRes.ok THEN <<DefaultSnapCounts, EmptyDF>>
    ELSE IF ~idsRes.ok THEN <<DefaultSnapCounts, snapsRes.df>>
    ELSE LET raw == snapsRes.df
             ids == idsRes.df
         IN  IF /\ ~IsEmptyDF(raw) /\ "pfr_player_id" \in raw.cols
                /\ "offense_snaps" \in raw.cols
                /\ ~IsEmptyDF(ids) /\ "pfr_id" \in ids.cols
                /\ "gsis_id" \in ids.cols
             THEN LET merged == LeftMerge(raw, Project(ids, {"pfr_id", "gsis_id"}),
                                          "pfr_player_id", "pfr_id", "_x", "_y")
                  IN  IF "gsis_id" \notin merged.cols
                      THEN <<DefaultSnapCounts, raw>>
                      ELSE LET known == DropNa(merged, {"gsis_id"})
                           IN  << [cols |-> {"player_id", "offense_snaps"},
                                   rows |-> GroupSnaps(known.rows, 1)],
                                  raw >>
             ELSE <<DefaultSnapCounts, raw>>

\* The tuple load_data_for_year returns for its three loads (lines 57-60).
LoadedTables(rosters_df, all_seasonal_stats_df, snaps) ==
    <<rosters_df, MergeStatsWithRoster(all_seasonal_stats_df, rosters_df),
      snaps[1], snaps[2]>>

\* load_data_for_year: (rosters_df, stats_with_position_df,
\* seasonal_snap_counts_df, raw_snap_counts_df).
LoadDataForYear(prov) ==
    LoadedTables(LoadRosters(prov.rosters), LoadSeasonal(prov.seasonal),
                 LoadSnapCounts(prov.snaps, prov.ids))

(***************************************************************************)
(* The season-data cache, get_data_for_year_cached.                        *)
(***************************************************************************)
EmptyTuple == <<EmptyDF, EmptyDF, EmptyDF, EmptyDF>>
LoadRaised == "raised"

\* What the first request of a year stores: the loaded tuple, or four empty
\* tables when the roster or the statistics is empty or the load raised.
CacheEntry(loaded) ==
    IF loaded = LoadRaised THEN EmptyTuple
    ELSE IF IsEmptyDF(loaded[1]) \/ IsEmptyDF(loaded[2]) THEN EmptyTuple
    ELSE loaded

\* A request that also reloads a year cached as empty.
NeedsLoadOrEmpty(year, cache) ==
    year \notin DOMAIN cache \/ IsEmptyDF(cache[year][1])

\* `year not in data_cache` (line 68): the request invokes load_data_for_year.
NeedsLoad(year, cache) == year \notin DOMAIN cache

\* The cache after get_data_for_year_cached(year, cache): the year's entry is
\* loaded and stored when the cache has none.
CacheAfterGet(year, cache, provider) ==
    IF ~NeedsLoad(year, cache) THEN cache
    ELSE (year :> CacheEntry(LoadDataForYear(provider[year]))) @@ cache

\* What a request returns for a stored entry (lines 81-85).
Returned(cached_data) ==
    IF IsEmptyDF(cached_data[1]) \/ IsEmptyDF(cached_data[2])
    THEN EmptyTuple
    ELSE cached_data

\* The tuple get_data_for_year_cached returns.
GetDataForYearCached(year, cache, provider) ==
    Returned(CacheAfterGet(year, cache, provider)[year])

(***************************************************************************)
(* The process-wide pseudorandom generator (Python's random module).  Its  *)
(* state after random.seed(s) and every later draw are functions of s; the *)
(* model keeps that and replaces the Mersenne Twister by a small additive  *)
(* generator whose seeds cover constant, alternating and cycling streams.  *)
(* One randint or choice call takes one draw.                              *)
(***************************************************************************)
RngMod == 5
RngIncs == 3
MaxSeed == 5

Seeds == 0..MaxSeed

\* random.seed(s)
SeedRng(s) == [x |-> (RngMod - 1 + (s \div RngIncs)) % RngMod, inc |-> s % RngIncs]

\* The generator after one draw.
NextRng(rng) == [rng EXCEPT !.x = (rng.x + rng.inc) % RngMod]

\* random.randint(a, b) and random.choice(seq) on the current draw.
RandInt(rng, a, b) == a + (rng.x % (b - a + 1))
Choice(rng, seq) == seq[(rng.x % Len(seq)) + 1]

(***************************************************************************)
(* The daily seed, get_daily_seed_and_date.  A string is the sequence of   *)
(* its characters.                                                         *)
(***************************************************************************)
DIGITS == <<"0", "1", "2", "3", "4", "5", "6", "7", "8", "9">>

\* The decimal digits of n, without padding.
RECURSIVE Decimal(_)
Decimal(n) ==
    IF n < 10 THEN <<DIGITS[n + 1]>> ELSE Decimal(n \div 10) \o <<DIGITS[(n % 10) + 1]>>

\* A field printed without zero padding.
Unpadded(n, width) == Decimal(n)

\* strftime's %Y, %m, %d: n in decimal, zero-padded to the width.
RECURSIVE ZeroPadded(_, _)
ZeroPadded(n, width) ==
    IF Len(Decimal(n)) >= width THEN Decimal(n)
    ELSE <<"0">> \o ZeroPadded(n, width - 1)

DigitValue(c) == (CHOOSE i \in DOMAIN DIGITS : DIGITS[i] = c) - 1

\* int(s) of a string of digits.
RECURSIVE ParseInt(_)
ParseInt(s) ==
    IF s = << >> THEN 0
    ELSE 10 * ParseInt(SubSeq(s, 1, Len(s) - 1)) + DigitValue(s[Len(s)])

\* get_daily_seed_and_date at the UTC instant now_utc.
GetDailySeedAndDate(now_utc) ==
    LET Y == ZeroPadded(now_utc.year, 4)
        m == ZeroPadded(now_utc.month, 2)
        d == ZeroPadded(now_utc.day, 2)
        date_str == Y \o <<"-">> \o m \o <<"-">> \o d
        seed_str == Y \o m \o d
    IN  [seed |-> ParseInt(seed_str), date_str |-> date_str]

(***************************************************************************)
(* Question generation.                                                    *)
(***************************************************************************)
POSITIONS_FOR_DRAFT == <<"QB", "WR1", "WR2", "RB", "TE">>
\* A menu table without the TE entry.
STAT_CATEGORIES_NoTE ==
    [QB |-> <<"passing_yards", "passing_tds", "completions", "attempts">>,
     WR |-> <<"receptions", "receiving_yards", "receiving_tds", "targets">>,
     RB |-> <<"rushing_yards", "rushing_tds", "carries", "receptions">>]
STAT_CATEGORIES ==
    [QB |-> <<"passing_yards", "passing_tds", "completions", "attempts">>,
     WR |-> <<"receptions", "receiving_yards", "receiving_tds", "targets">>,
     RB |-> <<"rushing_yards", "rushing_tds", "carries", "receptions">>,
     TE |-> <<"receptions", "receiving_yards", "receiving_tds", "targets">>]
MIN_YEAR == 1999
MAX_YEAR == 2023
QUESTIONS_PER_ROUND == 5

NoneStr == "None"
Min(a, b) == IF a < b THEN a ELSE b

\* An upper bound that takes the current year in every month.
ActualMaxYearAnyMonth(now) == Min(MAX_YEAR, now.year)

\* The last fully completed season at the date `now`, clamped to MAX_YEAR.
ActualMaxYear(now) ==
    IF now.month < 9 THEN Min(MAX_YEAR, now.year - 1) ELSE Min(MAX_YEAR, now.year)

\* select_random_year_for_question: the year and the generator after it; no
\* draw is taken when the range is empty.
SelectRandomYear(now, rng) ==
    LET actual_max_year == ActualMaxYear(now)
    IN  IF MIN_YEAR > actual_max_year
        THEN [year |-> actual_max_year, rng |-> rng]
        ELSE [year |-> RandInt(rng, MIN_YEAR, actual_max_year), rng |-> NextRng(rng)]

\* slot.rstrip('12')
SlotPosition(slot) ==
    CASE slot = "WR1" -> "WR"
      [] slot = "WR2" -> "WR"
      [] OTHER -> slot

\* A resolver that takes the last row holding the largest value.
GetStatLeaderLast(stat_df, stat_column) ==
    IF IsEmptyDF(stat_df) \/ stat_column \notin stat_df.cols
          \/ "player_id" \notin stat_df.cols
    THEN << >>
    ELSE LET numeric == SelectSeq(stat_df.rows, LAMBDA r : r[stat_column].k = "num")
         IN  IF numeric = << >> THEN << >>
             ELSE LET leader_idx ==
                          CHOOSE i \in DOMAIN numeric :
                              /\ \A j \in DOMAIN numeric :
                                    numeric[j][stat_column].v <= numeric[i][stat_column].v
                              /\ \A j \in (i + 1)..Len(numeric) :
                                    numeric[j][stat_column].v < numeric[i][stat_column].v
                  IN  << [player_id |-> numeric[leader_idx]["player_id"],
                          stat_value |-> numeric[leader_idx][stat_column]] >>

\* get_stat_leader: << >> for None, else <<[player_id, stat_value]>> of the
\* first row holding the largest numeric value of the column.
GetStatLeader(stat_df, stat_column) ==
    IF IsEmptyDF(stat_df) \/ stat_column \notin stat_df.cols
          \/ "player_id" \notin stat_df.cols
    THEN << >>
    ELSE LET numeric == SelectSeq(stat_df.rows, LAMBDA r : r[stat_column].k = "num")
         IN  IF numeric = << >> THEN << >>
             ELSE LET leader_idx ==
                          CHOOSE i \in DOMAIN numeric :
                              /\ \A j \in DOMAIN numeric :
                                    numeric[j][stat_column].v <= numeric[i][stat_column].v
                              /\ \A j \in 1..(i - 1) :
                                    numeric[j][stat_column].v < numeric[i][stat_column].v
                  IN  << [player_id |-> numeric[leader_idx]["player_id"],
                          stat_value |-> numeric[leader_idx][stat_column]] >>

\* The WR loop of lines 162-168 from `attempts` on: the statistic selected
\* (NoneStr when the attempts run out), the generator, the attempts made.
RECURSIVE WrLoop(_, _, _, _, _)
WrLoop(rng, question_year, possible_stats, used, attempts) ==
    IF attempts >= Len(possible_stats) * 3
    THEN [stat |-> NoneStr, rng |-> rng, attempts |-> attempts]
    ELSE LET stat_candidate == Choice(rng, possible_stats)
         IN  IF <<question_year, stat_candidate>> \notin used
             THEN [stat |-> stat_candidate, rng |-> NextRng(rng), attempts |-> attempts]
             ELSE WrLoop(NextRng(rng), question_year, possible_stats, used, attempts + 1)

\* A selection that never records the WR pair it selected.
SelectStatNoRegister(rng, actual_position, question_year, possible_stats, used) ==
    IF actual_position = "WR"
    THEN LET loop == WrLoop(rng, question_year, possible_stats, used, 0)
         IN  IF loop.stat = NoneStr
             THEN [stat |-> Choice(loop.rng, possible_stats), rng |-> NextRng(loop.rng),
                   used |-> used, attempts |-> loop.attempts, fallback |-> TRUE]
             ELSE [stat |-> loop.stat, rng |-> loop.rng, used |-> used,
                   attempts |-> loop.attempts, fallback |-> FALSE]
    ELSE [stat |-> Choice(rng, possible_stats), rng |-> NextRng(rng),
          used |-> used, attempts |-> 0, fallback |-> FALSE]

\* The statistic of a slot (lines 155-173): the selection, the generator after
\* it, the WR pairs in use, and what the loop did (attempts, fallback).
SelectStat(rng, actual_position, question_year, possible_stats, used) ==
    IF actual_position = "WR"
    THEN LET loop == WrLoop(rng, question_year, possible_stats, used, 0)
         IN  IF loop.stat = NoneStr
             THEN [stat |-> Choice(loop.rng, possible_stats), rng |-> NextRng(loop.rng),
                   used |-> used, attempts |-> loop.attempts, fallback |-> TRUE]
             ELSE [stat |-> loop.stat, rng |-> loop.rng,
                   used |-> used \cup {<<question_year, loop.stat>>},
                   attempts |-> loop.attempts, fallback |-> FALSE]
    ELSE [stat |-> Choice(rng, possible_stats), rng |-> NextRng(rng),
          used |-> used, attempts |-> 0, fallback |-> FALSE]

\* A record of a slot without statistics that does not flag the issue.
DataIssueUnflagged(slot, question_year) ==
    [position_slot |-> slot, stat_category |-> NoneStr, year |-> question_year,
     correct_player_id |-> NoneStr, correct_player_name |-> NoneStr,
     correct_stat_value |-> None, data_issue |-> FALSE,
     attempts |-> 0, fallback |-> FALSE]

\* The record of a slot whose year has no usable statistics (lines 136-145).
DataIssueQuestion(slot, question_year) ==
    [position_slot |-> slot, stat_category |-> NoneStr, year |-> question_year,
     correct_player_id |-> NoneStr, correct_player_name |-> NoneStr,
     correct_stat_value |-> None, data_issue |-> TRUE,
     attempts |-> 0, fallback |-> FALSE]

\* leader_info of a slot (lines 178-185): << >> for None.
LeaderInfo(actual_position, stats_with_position_df, relevant_stats, stat_column) ==
    IF actual_position \in GAME_POSITIONS
       /\ ~IsEmptyDF(stats_with_position_df)
       /\ ~IsEmptyDF(relevant_stats)
    THEN GetStatLeader(relevant_stats, stat_column)
    ELSE << >>

\* The record of a slot from its leader_info (lines 187-206).
LeaderRecord(slot, question_year, sel, rosters_df, leader_info) ==
    LET player_record == IF leader_info # << >> /\ ~IsEmptyDF(rosters_df)
                            /\ "player_id" \in rosters_df.cols
                            /\ "player_name" \in rosters_df.cols
                         THEN WhereEq(rosters_df, "player_id", leader_info[1].player_id)
                         ELSE EmptyDF
        player_name == IF ~IsEmptyDF(player_record)
                       THEN player_record.rows[1]["player_name"]
                       ELSE "Unknown"
    IN  [position_slot |-> slot, stat_category |-> sel.stat, year |-> question_year,
         correct_player_id |-> IF leader_info # << >>
                               THEN leader_info[1].player_id ELSE NoneStr,
         correct_player_name |-> IF leader_info # << >> THEN player_name ELSE "N/A",
         correct_stat_value |-> IF leader_info # << >>
                                THEN leader_info[1].stat_value ELSE None,
         data_issue |-> leader_info = << >>,
         attempts |-> sel.attempts, fallback |-> sel.fallback]

\* The record of a slot with a statistic (lines 178-206).
LeaderQuestion(slot, question_year, sel, rosters_df, stats_with_position_df) ==
    LeaderRecord(slot, question_year, sel, rosters_df,
        LeaderInfo(SlotPosition(slot), stats_with_position_df,
                   WhereEq(stats_with_position_df, "position", SlotPosition(slot)),
                   sel.stat))

RECURSIVE GenerateFrom(_, _, _, _)
\* Slot i once its year is picked and get_data_for_year_cached has run: cache
\* is the cache after the call, which returned the year's entry of it; acc
\* after the slot (lines 131-206).
SlotBody(i, acc, picked, cache) ==
      LET slot == POSITIONS_FOR_DRAFT[i]
          question_year == picked.year
          data == Returned(cache[question_year])
          actual_position == SlotPosition(slot)
      IN  IF IsEmptyDF(data[2]) \/ "position" \notin data[2].cols
          THEN [acc EXCEPT !.questions = Append(@, DataIssueQuestion(slot, question_year)),
                           !.cache = cache, !.rng = picked.rng]
          ELSE IF actual_position \notin DOMAIN STAT_CATEGORIES
          THEN [acc EXCEPT !.cache = cache, !.rng = picked.rng]
          ELSE LET sel == SelectStat(picked.rng, actual_position, question_year,
                                     STAT_CATEGORIES[actual_position], acc.used)
               IN  [questions |-> Append(acc.questions,
                                      LeaderQuestion(slot, question_year, sel,
                                                     data[1], data[2])),
                    cache |-> cache, rng |-> sel.rng, used |-> sel.used]

\* Slot i, then the later slots.
GenerateSlot(i, acc, now, provider, picked, cache) ==
    GenerateFrom(i + 1, SlotBody(i, acc, picked, cache), now, provider)

\* The loop body of generate_questions_for_round for slot i, then the later
\* slots: acc holds questions, the cache, the generator and the WR pairs used.
GenerateFrom(i, acc, now, provider) ==
    IF i > Len(POSITIONS_FOR_DRAFT) THEN acc
    ELSE GenerateSlot(i, acc, now, provider, SelectRandomYear(now, acc.rng),
             CacheAfterGet(SelectRandomYear(now, acc.rng).year, acc.cache, provider))

\* A generation that never seeds the generator.
GenerateUnseeded(cache, rng, now, provider, daily_mode, daily_seed) ==
    GenerateFrom(1, [questions |-> << >>, cache |-> cache, rng |-> rng, used |-> {}],
                 now, provider)

\* generate_questions_for_round(data_cache, daily_mode, daily_seed), with
\* daily_seed << >> for None and <<s>> for s: the call's questions, and the
\* cache and the generator after it.
GenerateQuestionsForRound(cache, rng, now, provider, daily_mode, daily_seed) ==
    GenerateFrom(1,
        [questions |-> << >>, cache |-> cache,
         rng |-> IF daily_mode /\ daily_seed # << >> THEN SeedRng(daily_seed[1]) ELSE rng,
         used |-> {}],
        now, provider)

(***************************************************************************)
(* Eligibility filter.                                                     *)
(***************************************************************************)
\* Player names in alphabetical order (sort_values compares the strings).
PLAYER_NAMES == <<"Adams", "Brown", "Cook", "Diggs">>
NameRank(name) == CHOOSE i \in DOMAIN PLAYER_NAMES : PLAYER_NAMES[i] = name

\* A cast that writes every identifier as 'nan'.
AsTypeStrBlank(v) == "nan"

\* Series.astype(str) on an id cell: a missing id becomes the string "nan".
AsTypeStr(v) == IF v = NA THEN "nan" ELSE v

PlayerIdAsStr(t) ==
    [cols |-> t.cols,
     rows |-> [i \in DOMAIN t.rows |->
                  [t.rows[i] EXCEPT !["player_id"] = AsTypeStr(@)]]]

\* A criterion that reads targets for every game position.
OpportunityColumnTargets(position_label) ==
    IF position_label \in {"WR", "TE", "RB", "QB"} THEN "targets" ELSE NoneStr

\* The opportunity column of a position (lines 325-339); NoneStr for a
\* position without a filter.
OpportunityColumn(position_label) ==
    CASE position_label \in {"WR", "TE"} -> "targets"
      [] position_label = "RB" -> "carries"
      [] position_label = "QB" -> "attempts"
      [] OTHER -> NoneStr

\* cell > 0 after fillna(0).
Positive(cell) == cell.k = "num" /\ cell.v > 0

\* position_roster.get(col, pd.Series(0)).fillna(0) > 0 on a row: a missing
\* column is filled from a one-element series, 0 or NaN, never positive.
HasOpportunity(t, row, col) == col \in t.cols /\ Positive(row[col])

\* The sentinel list of one placeholder entry.
Sentinel(label) == << [player_name |-> label, player_id |-> NoneStr] >>

\* A sort that leaves the rows as they come.
Unsorted(rows) == {rows}

\* sort_values(by='player_name'): the orders of the rows with ascending
\* names; rows of equal name may come in either order.
SortedByName(rows) ==
    LET n == Len(rows)
        perms == { f \in [1..n -> 1..n] :
                     /\ \A i, j \in 1..n : i # j => f[i] # f[j]
                     /\ \A i \in 1..(n - 1) :
                           NameRank(rows[f[i]]["player_name"])
                               <= NameRank(rows[f[i + 1]]["player_name"]) }
    IN  { [i \in 1..n |-> rows[f[i]]] : f \in perms }

\* The cast of line 312 on the cache that holds the year: the cached snap
\* counts have their player_id column cast in place when the call reaches it.
CastInPlace(position_label, year, loaded) ==
    LET data == Returned(loaded[year])
    IN  IF /\ ~IsEmptyDF(data[1]) /\ ROSTER_COLUMNS \subseteq data[1].cols
           /\ ~IsEmptyDF(WhereEq(data[1], "position", position_label))
           /\ ~IsEmptyDF(data[3]) /\ "player_id" \in data[3].cols
        THEN [loaded EXCEPT ![year][3] = PlayerIdAsStr(@)]
        ELSE loaded

\* The cache after get_eligible_players_for_autocomplete: the year is loaded,
\* and the cached snap counts have their player_id column cast in place
\* (line 312).
CacheAfterEligible(position_label, year, cache, provider) ==
    CastInPlace(position_label, year, CacheAfterGet(year, cache, provider))

\* position_roster after the merges with the statistics and the snap counts
\* (lines 300-322).
MergedPositionRoster(position_roster, stats_with_position_df, seasonal_snap_counts_df) ==
    LET with_stats ==
            IF ~IsEmptyDF(stats_with_position_df)
                  /\ "player_id" \in stats_with_position_df.cols
            THEN LeftMerge(position_roster, stats_with_position_df,
                           "player_id", "player_id", "", "_stats")
            ELSE position_roster
    IN  IF ~IsEmptyDF(seasonal_snap_counts_df)
              /\ "player_id" \in seasonal_snap_counts_df.cols
        THEN LET snaps == Project(PlayerIdAsStr(seasonal_snap_counts_df),
                                  {"player_id", "offense_snaps"})
                 merged == LeftMerge(PlayerIdAsStr(with_stats), snaps,
                                     "player_id", "player_id", "_x", "_y")
             IN  [cols |-> merged.cols,
                  rows |-> [i \in DOMAIN merged.rows |->
                              [merged.rows[i] EXCEPT !["offense_snaps"] =
                                  IF IsNull(@, "offense_snaps") THEN Num(0) ELSE @]]]
        ELSE [cols |-> with_stats.cols \cup {"offense_snaps"},
              rows |-> [i \in DOMAIN with_stats.rows |->
                          [c \in with_stats.cols \cup {"offense_snaps"} |->
                              IF c = "offense_snaps" THEN Num(0)
                              ELSE with_stats.rows[i][c]]]]

\* The rows that pass the position's criterion (lines 324-341).
ActivePlayers(merged, position_label) ==
    LET col == OpportunityColumn(position_label)
    IN  IF col = NoneStr THEN merged
        ELSE [cols |-> merged.cols,
              rows |-> SelectSeq(merged.rows,
                           LAMBDA r : HasOpportunity(merged, r, col)
                                         \/ Positive(r["offense_snaps"]))]

\* The lists the call can return for the tuple of its year (lines 286-359).
EligibleFrom(position_label, data) ==
    LET rosters_df == data[1]
    IN  IF IsEmptyDF(rosters_df) \/ "player_id" \notin rosters_df.cols
        THEN {Sentinel("No roster data available")}
        ELSE IF "position" \notin rosters_df.cols \/ "player_name" \notin rosters_df.cols
        THEN {Sentinel("Incomplete roster data")}
        ELSE LET position_roster == WhereEq(rosters_df, "position", position_label)
             IN  IF IsEmptyDF(position_roster)
                 THEN {Sentinel("No " \o position_label \o "s found in roster")}
                 ELSE LET active == ActivePlayers(
                                        MergedPositionRoster(position_roster, data[2], data[3]),
                                        position_label)
                      IN  IF IsEmptyDF(active)
                          THEN {Sentinel("No active " \o position_label \o "s found")}
                          ELSE { [i \in DOMAIN s |->
                                     [player_name |-> s[i]["player_name"],
                                      player_id |-> s[i]["player_id"]]] :
                                   s \in SortedByName(DedupRows(active.rows, "player_id", {})) }

\* get_eligible_players_for_autocomplete: the lists the call can return.
GetEligiblePlayers(position_label, year, cache, provider) ==
    EligibleFrom(position_label, GetDataForYearCached(year, cache, provider))

(***************************************************************************)
(* get_player_stat_for_question.                                           *)
(***************************************************************************)
\* pd.to_numeric of one cell: a number and NaN are returned as they are, a
\* string that is no number raises, and None comes back as None or as NaN.
ToNumericScalar(cell) ==
    CASE cell.k = "junk" -> {}
      [] cell.k = "none" -> {None, NaN}
      [] OTHER -> {cell}

\* The values the call returns from the year's statistics: the guessed
\* player's cell of the question's statistic, 0 when the season has no
\* statistics, the player no row, the table no such column, or the conversion
\* raises.
PlayerStatIn(guessed_player_id, question_data, stats_with_position_df) ==
    LET player_stat_row == WhereEq(stats_with_position_df, "player_id", guessed_player_id)
    IN  IF IsEmptyDF(stats_with_position_df)
           \/ "player_id" \notin stats_with_position_df.cols
        THEN {Num(0)}
        ELSE IF ~IsEmptyDF(player_stat_row)
                /\ question_data.stat_category \in player_stat_row.cols
        THEN LET values ==
                     ToNumericScalar(player_stat_row.rows[1][question_data.stat_category])
             IN  IF values = {} THEN {Num(0)} ELSE values
        ELSE {Num(0)}

\* get_player_stat_for_question: the values the call can return.
GetPlayerStatForQuestion(guessed_player_id, question_data, cache, provider) ==
    PlayerStatIn(guessed_player_id, question_data,
                 GetDataForYearCached(question_data.year, cache, provider)[2])

(***************************************************************************)
(* Scoring engine.                                                         *)
(***************************************************************************)
MAX_POINTS_PER_QUESTION == 10000

FULL5 == "FFFFF"
EMPTY5 == "EEEEE"

\* EMOJI_THRESHOLDS in the order of sorted(..., reverse=True); a threshold is
\* the rational n/d (0.0001 = 1/10000), F a green, P a yellow, E a black glyph.
EMOJI_THRESHOLDS ==
    << [n |-> 100, d |-> 1,     emojis |-> FULL5],
       [n |-> 80,  d |-> 1,     emojis |-> "FFFFP"],
       [n |-> 60,  d |-> 1,     emojis |-> "FFFPE"],
       [n |-> 40,  d |-> 1,     emojis |-> "FFPEE"],
       [n |-> 20,  d |-> 1,     emojis |-> "FPEEE"],
       [n |-> 1,   d |-> 10000, emojis |-> "PEEEE"] >>

\* The guess conversion with a failed float() left as NaN instead of 0.0.
ToFloatGuessNaN(x) ==
    CASE x.k = "none" -> Num(0)
      [] x.k = "junk" -> NaN
      [] OTHER -> x

\* float(x) if x is not None else 0.0, and 0.0 when float() raises (the guess);
\* the result is a number or NaN.
ToFloatGuess(x) ==
    CASE x.k = "none" -> Num(0)
      [] x.k = "junk" -> Num(0)
      [] OTHER -> x

\* guessed_stat != 0 and guessed_stat == 0 on floats: NaN differs from all.
FloatIsZero(f) == f.k = "num" /\ f.v = 0

\* The percentage without the factor 100.0 (a fraction taken for a percentage).
PercentageNoScale(g, c) ==
    IF g.k = "nan" \/ c.k = "nan" THEN [n |-> 0, d |-> 1]
    ELSE LET n == IF c.v < 0 THEN 0 - g.v ELSE g.v
             d == Abs(c.v)
         IN  IF n <= 0 THEN [n |-> 0, d |-> 1]
             ELSE IF n >= 100 * d THEN [n |-> 100, d |-> 1]
             ELSE [n |-> n, d |-> d]

\* The percentage with the upper clamp at 200.0 instead of 100.0.
PercentageClamp200(g, c) ==
    IF g.k = "nan" \/ c.k = "nan" THEN [n |-> 0, d |-> 1]
    ELSE LET n == IF c.v < 0 THEN 0 - 100 * g.v ELSE 100 * g.v
             d == Abs(c.v)
         IN  IF n <= 0 THEN [n |-> 0, d |-> 1]
             ELSE IF n >= 200 * d THEN [n |-> 200, d |-> 1]
             ELSE [n |-> n, d |-> d]

\* percentage = min(max(0.0, guessed / correct * 100.0), 100.0) as the exact
\* rational n/d with d > 0.  max(0.0, nan) is 0.0 in Python, so a NaN operand
\* gives 0.
Percentage(g, c) ==
    IF g.k = "nan" \/ c.k = "nan" THEN [n |-> 0, d |-> 1]
    ELSE LET n == IF c.v < 0 THEN 0 - 100 * g.v ELSE 100 * g.v
             d == Abs(c.v)
         IN  IF n <= 0 THEN [n |-> 0, d |-> 1]
             ELSE IF n >= 100 * d THEN [n |-> 100, d |-> 1]
             ELSE [n |-> n, d |-> d]

\* percentage >= threshold.  The double computed for guessed / correct * 100.0
\* is within rounding error of the rational: the comparison is the exact one
\* except when the rational equals a threshold that is no double (0.0001),
\* where the rounding error decides.
GeThreshold(p, t) ==
    IF t.d > 1 /\ (t.n * p.d) % t.d = 0 /\ p.n = (t.n * p.d) \div t.d
    THEN {TRUE, FALSE}
    ELSE {p.n >= CeilDiv(t.n * p.d, t.d)}

\* The points truncated, int(...), instead of rounded.
RoundPointsTruncated(p) == {(p.n * (MAX_POINTS_PER_QUESTION \div 100)) \div p.d}

\* round(percentage * (MAX_POINTS_PER_QUESTION / 100.0)): Python rounds the
\* double to the nearest integer, a tie to the even one.  An exact tie of the
\* rational is decided by the rounding error of the double: either neighbour.
RoundPoints(p) ==
    LET n == p.n * (MAX_POINTS_PER_QUESTION \div 100)
        q == n \div p.d
        r == n % p.d
    IN  IF 2 * r < p.d THEN {q}
        ELSE IF 2 * r > p.d THEN {q + 1}
        ELSE IF p.d = 1 THEN {q}
        ELSE {q, q + 1}

\* The emoji loop over the thresholds from position i on: the emojis of the
\* first threshold the percentage reaches, the default when it reaches none.
RECURSIVE EmojiFrom(_, _)
EmojiFrom(p, i) ==
    IF i > Len(EMOJI_THRESHOLDS) THEN {EMPTY5}
    ELSE UNION { IF ge THEN {EMOJI_THRESHOLDS[i].emojis} ELSE EmojiFrom(p, i + 1) :
                   ge \in GeThreshold(p, EMOJI_THRESHOLDS[i]) }

\* calculate_score_emojis_and_points: the set of (emojis, points) the call
\* can return (one element except at a rounding tie).
ScoreOutcomes(guessIn, correctIn) ==
    LET guessed == ToFloatGuess(guessIn)
    IN  IF correctIn.k = "junk"
        THEN { IF ~FloatIsZero(guessed)
               THEN [emojis |-> EMPTY5, points |-> 0]
               ELSE [emojis |-> FULL5, points |-> MAX_POINTS_PER_QUESTION] }
        ELSE LET correct == IF correctIn.k = "none" THEN Num(0) ELSE correctIn
             IN  IF FloatIsZero(correct)
                 THEN { IF FloatIsZero(guessed)
                        THEN [emojis |-> FULL5, points |-> MAX_POINTS_PER_QUESTION]
                        ELSE [emojis |-> EMPTY5, points |-> 0] }
                 ELSE LET p == Percentage(guessed, correct)
                      IN  { [emojis |-> IF p.n = 0 /\ FloatIsZero(guessed)
                                        THEN EMPTY5 ELSE e,
                             points |-> pts] :
                              e \in EmojiFrom(p, 1), pts \in RoundPoints(p) }

(***************************************************************************)
(* The upstream provider (nfl_data_py): what its import calls answer for a *)
(* season.                                                                 *)
(***************************************************************************)
Ok(df) == [ok |-> TRUE, df |-> df]
Raises == [ok |-> FALSE, df |-> EmptyDF]

RosterRow(id, pos, name) ==
    [player_id |-> id, position |-> pos, first_name |-> "F", last_name |-> name,
     player_name |-> name, team |-> "T"]
RosterTable(rows) == [cols |-> ROSTER_COLUMNS \cup {"team"}, rows |-> rows]

StatsRow(id, att, rec, tgt, car) ==
    [player_id |-> id, attempts |-> att, receptions |-> rec, targets |-> tgt,
     carries |-> car]
StatsTable(rows) ==
    [cols |-> {"player_id", "attempts", "receptions", "targets", "carries"},
     rows |-> rows]

SnapRow(pfr, snaps) == [pfr_player_id |-> pfr, offense_snaps |-> snaps]
SnapTable(rows) == [cols |-> {"pfr_player_id", "offense_snaps"}, rows |-> rows]
IdRow(pfr, gsis) == [pfr_id |-> pfr, gsis_id |-> gsis]
IdTable(rows) == [cols |-> {"pfr_id", "gsis_id"}, rows |-> rows]

FullRoster ==
    RosterTable(<< RosterRow("p1", "QB", "Diggs"), RosterRow("p2", "WR", "Brown"),
                   RosterRow("p3", "WR", "Adams"), RosterRow("p4", "RB", "Cook"),
                   RosterRow("p2", "WR", "Brown"), RosterRow("k1", "K", "Cook") >>)

FullStats ==
    StatsTable(<< StatsRow("p1", Num(500), NaN, NaN, Num(40)),
                  StatsRow("p2", NaN, Num(100), Num(150), NaN),
                  StatsRow("p3", NaN, Num(100), Num(120), Num(2)),
                  StatsRow("p4", NaN, Num(30), Num(40), Num(250)),
                  StatsRow("x9", Num(900), Num(900), Num(900), Num(900)) >>)

\* A season with roster and statistics and no snap counts.
Healthy ==
    [rosters |-> Ok(FullRoster), seasonal |-> Ok(FullStats),
     snaps |-> Raises, ids |-> Ok(IdTable(<< IdRow("f2", "p2") >>))]

\* A season whose statistics call answers no rows.
NoStats == [Healthy EXCEPT !.seasonal = Ok(StatsTable(<< >>))]

\* A season whose roster call raises.
RosterDown == [Healthy EXCEPT !.rosters = Raises]

\* A season with a tight end, non-numeric and missing statistics, and snap
\* counts under the second identifier scheme.
Sparse ==
    [rosters |-> Ok(RosterTable(
                     << RosterRow("p1", "QB", "Diggs"), RosterRow("p2", "WR", "Brown"),
                        RosterRow("p4", "TE", "Adams"), RosterRow("p3", "WR", NA) >>)),
     seasonal |-> Ok(StatsTable(
                     << StatsRow("p1", Junk, NaN, NaN, NaN),
                        StatsRow("p2", NaN, Junk, Num(7), NaN),
                        StatsRow("p4", NaN, Num(30), NaN, NaN) >>)),
     snaps |-> Ok(SnapTable(<< SnapRow("f2", Num(10)), SnapRow("f4", Num(0)),
                               SnapRow("f2", Num(5)), SnapRow("f7", Num(9)) >>)),
     ids |-> Ok(IdTable(<< IdRow("f2", "p2"), IdRow("f4", "p4") >>))]

\* Every import of a season the provider does not have raises.
NoSeason == [rosters |-> Raises, seasonal |-> Raises, snaps |-> Raises, ids |-> Raises]

\* The provider's seasons in the model: what it answers for 1998, 1999, 2000.
World(y1999, y2000) == (1998 :> NoSeason) @@ (1999 :> y1999) @@ (2000 :> y2000)
WORLDS == { World(Healthy, Sparse), World(Sparse, NoStats), World(RosterDown, Healthy) }

(***************************************************************************)
(* storage.py: the completion store, a JSON file of date -> user -> record.*)
(* A dict is a function; a key of a dict is tagged with its Python type    *)
(* and holds its text; a date string is the sequence of its characters.    *)
(***************************************************************************)
IntKey(n) == [t |-> "int", s |-> Decimal(n)]

\* The stat shown for a guess: what pd.to_numeric gave for the player's cell,
\* a numpy float64 or a numpy int64 following the column's dtype.
Float64(v) == [k |-> "float64", v |-> v]
Int64(v) == [k |-> "int64", v |-> v]

\* json.dump writes str, int and float (numpy's float64 is a float) and raises
\* TypeError on any other object, such as a numpy int64.
JsonSerializable(results) ==
    \A q \in DOMAIN results :
        "guessed_stat" \in DOMAIN results[q] => results[q].guessed_stat.k # "int64"

\* json.dump writes every key of an object as a string: an int key as its
\* decimal text.
JsonKey(key) == [t |-> "str", s |-> key.s]

\* A results dict after json.dump and json.load.
JsonResults(results) ==
    [ key \in { JsonKey(q) : q \in DOMAIN results } |->
        results[CHOOSE q \in DOMAIN results : JsonKey(q) = key] ]

\* completed_games after json.dump and json.load.
JsonGames(completed_games) ==
    [ date_str \in DOMAIN completed_games |->
        [ user_id \in DOMAIN completed_games[date_str] |->
            [ completed_games[date_str][user_id]
                EXCEPT !.results = JsonResults(@) ] ] ]

\* The file: valid JSON holding games, or text that json.load rejects.  A
\* missing file reads as the empty dict.
StoreFile(games) == [valid |-> TRUE, games |-> games]
EmptyStore == StoreFile(<< >>)
BrokenStore == [valid |-> FALSE, games |-> << >>]

\* load_completed_games: {} when the file is missing or does not parse.
LoadCompletedGames(file) == IF file.valid THEN file.games ELSE << >>

\* save_completed_game: the file afterwards and the value returned.  The file
\* is opened for writing, and so truncated, before json.dump starts; a dump
\* that raises leaves a prefix of the text behind.
SaveCompletedGame(file, date_str, user_id, score, max_score, results) ==
    LET completed_games == LoadCompletedGames(file)
        users == IF date_str \in DOMAIN completed_games
                 THEN completed_games[date_str] ELSE << >>
        record == [score |-> score, max_score |-> max_score, results |-> results]
        updated == (date_str :> ((user_id :> record) @@ users)) @@ completed_games
    IN  IF JsonSerializable(results)
        THEN [file |-> StoreFile(JsonGames(updated)), ok |-> TRUE]
        ELSE [file |-> BrokenStore, ok |-> FALSE]

\* get_completed_game: << >> for None, else <<the record>>.
GetCompletedGame(file, date_str, user_id) ==
    LET completed_games == LoadCompletedGames(file)
    IN  IF date_str \in DOMAIN completed_games
           /\ user_id \in DOMAIN completed_games[date_str]
        THEN << completed_games[date_str][user_id] >>
        ELSE << >>

HasCompletedToday(file, date_str, user_id) ==
    GetCompletedGame(file, date_str, user_id) # << >>

\* date.toordinal() of a proleptic Gregorian date.
DAYS_BEFORE_MONTH == <<0, 31, 59, 90, 120, 151, 181, 212, 243, 273, 304, 334>>
IsLeap(y) == y % 4 = 0 /\ (y % 100 # 0 \/ y % 400 = 0)
Ordinal(y, m, d) ==
    365 * (y - 1) + ((y - 1) \div 4) - ((y - 1) \div 100) + ((y - 1) \div 400)
        + DAYS_BEFORE_MONTH[m] + (IF m > 2 /\ IsLeap(y) THEN 1 ELSE 0) + d

\* strptime(date_str, "%Y-%m-%d") as an ordinal.
ParseOrdinal(date_str) ==
    Ordinal(ParseInt(SubSeq(date_str, 1, 4)), ParseInt(SubSeq(date_str, 6, 7)),
            ParseInt(SubSeq(date_str, 9, 10)))

\* America/Los_Angeles is eight hours behind UTC in standard time, which
\* every instant of the model is in.
PACIFIC_OFFSET == 8

\* (now - midnight of date_str, both Pacific).days: whole days, rounded down.
DaysOld(now_utc, date_str) ==
    LET today == Ordinal(now_utc.year, now_utc.month, now_utc.day)
        pacific == IF now_utc.hour < PACIFIC_OFFSET THEN today - 1 ELSE today
    IN  pacific - ParseOrdinal(date_str)

\* cleanup_old_games(days_to_keep): the file afterwards.  The dates are the
\* ones save_completed_game wrote, which all parse.
CleanupOldGames(file, now_utc, days_to_keep) ==
    LET completed_games == LoadCompletedGames(file)
        kept == { date_str \in DOMAIN completed_games :
                    DaysOld(now_utc, date_str) <= days_to_keep }
    IN  StoreFile([ date_str \in kept |-> completed_games[date_str] ])

(***************************************************************************)
(* streamlit_app.py: one browser session's state and one run of the        *)
(* script.  A question of current_questions is kept as its data_issue      *)
(* flag; the questions themselves are the ones of SpecGenerate.            *)
(***************************************************************************)
DAILY == "Daily Challenge"
PRACTICE == "Practice Play"

\* The defaults of init_session_state, with the user id of the URL.
SessionDefaults(user_id) ==
    [ user_id |-> user_id,
      game_mode |-> DAILY,
      game_date_daily |-> << >>,
      game_completed_daily |-> FALSE,
      daily_total_score |-> 0,
      daily_max_score |-> 0,
      daily_results |-> << >>,
      current_questions |-> << >>,
      current_question_index |-> 0,
      current_round_total_score |-> 0,
      current_round_max_score |-> 0,
      round_in_progress |-> FALSE,
      results |-> << >>,
      show_result |-> FALSE ]

\* init_session_state on a rerun: the saved game of today is restored when
\* the session does not hold a completed game.
InitSessionState(session, file, now_utc) ==
    LET current_date_str == GetDailySeedAndDate(now_utc).date_str
        saved_game == GetCompletedGame(file, current_date_str, session.user_id)
    IN  IF saved_game # << >> /\ ~session.game_completed_daily
        THEN [ session EXCEPT !.game_completed_daily = TRUE,
                              !.daily_total_score = saved_game[1].score,
                              !.daily_max_score = saved_game[1].max_score,
                              !.daily_results = saved_game[1].results,
                              !.game_date_daily = <<current_date_str>> ]
        ELSE session

\* check_and_update_daily_challenge, run in Daily Challenge mode only.
CheckAndUpdateDailyChallenge(session, now_utc) ==
    LET current_date_str == GetDailySeedAndDate(now_utc).date_str
    IN  IF session.game_mode = DAILY /\ session.game_date_daily # <<current_date_str>>
        THEN [ session EXCEPT !.game_date_daily = <<current_date_str>>,
                              !.game_completed_daily = FALSE,
                              !.daily_total_score = 0,
                              !.daily_max_score = 0,
                              !.daily_results = << >>,
                              !.current_questions = << >>,
                              !.round_in_progress = FALSE ]
        ELSE session

\* One run of the script up to its widgets.
ScriptRun(session, file, now_utc) ==
    CheckAndUpdateDailyChallenge(InitSessionState(session, file, now_utc), now_utc)

\* The "Start Today's Challenge" button is drawn.
StartDailyEnabled(session) ==
    /\ session.game_mode = DAILY
    /\ ~session.game_completed_daily
    /\ ~session.round_in_progress

\* The "Start Practice Round" button is drawn.
StartPracticeEnabled(session) ==
    session.game_mode = PRACTICE /\ ~session.round_in_progress

\* reset_round_state.
ResetRoundState(session) ==
    [ session EXCEPT !.results = << >>, !.current_question_index = 0,
                     !.current_round_total_score = 0,
                     !.current_round_max_score = 0,
                     !.show_result = FALSE ]

\* start_daily_challenge, with the questions the generation returned.
StartDailyChallenge(session, now_utc, questions) ==
    [ ResetRoundState(session)
        EXCEPT !.current_questions = questions,
               !.game_date_daily = <<GetDailySeedAndDate(now_utc).date_str>>,
               !.round_in_progress = TRUE,
               !.game_completed_daily = FALSE ]

\* start_practice_round, with the questions the generation returned.
StartPracticeRound(session, questions) ==
    [ ResetRoundState(session) EXCEPT !.current_questions = questions,
                                      !.round_in_progress = TRUE ]

\* The session fields complete_daily_challenge sets.
CompleteDailyChallenge(session) ==
    [ session EXCEPT !.game_completed_daily = TRUE,
                     !.daily_total_score = session.current_round_total_score,
                     !.daily_max_score = session.current_round_max_score,
                     !.daily_results = session.results,
                     !.round_in_progress = FALSE ]

(***************************************************************************)
(* State.                                                                  *)
(***************************************************************************)
VARIABLES
    upstream,       \* per season, the provider's answers (never changes)
    now,            \* the current UTC date: [year, month]
    data_cache,     \* the session's data_cache: year -> cached tuple
    rng,            \* the process-wide pseudorandom generator
    round,          \* << >> or <<the last generate_questions_for_round call>>
    lastDaily,      \* << >> or <<the last daily-mode call>>
    prevDaily,      \* << >> or <<the daily-mode call before it>>, kept when
                    \* both calls had the same seed
    eligible,       \* << >> or <<the last eligibility call>>
    scoreCorrect,   \* the correct_stat_value of the question being answered
    scoreLog        \* the last results of calculate_score_emojis_and_points

\* What the requests of the cache did.
VARIABLES
    loads,          \* per season, the invocations of load_data_for_year
    lastLoad,       \* << >> or <<the last tuple load_data_for_year returned>>
    lastGet,        \* << >> or <<the last get_data_for_year_cached call>>
    lastStat        \* << >> or <<the last get_player_stat_for_question call>>

\* The calls of the pure operations.
VARIABLES
    leader,         \* a table, and the last get_stat_leader call on it
    seedLog         \* the last two get_daily_seed_and_date calls

\* The completion store and the browser sessions.
VARIABLES
    storeFile,      \* the contents of completed_games.json
    sessions,       \* per browser session, its st.session_state
    lastSave,       \* << >> or <<the last save_completed_game call>>
    completed       \* the (date, user) pairs whose daily game was saved

\* The calls of the other operations.
VARIABLES
    yearLog,        \* << >> or <<the last select_random_year_for_question call>>
    prefetched,     \* << >> or <<the last prefetch_eligible_players call>>
    chosen,         \* << >> or <<the last player submitted as an answer>>
    roundIssues,    \* per slot, whether the questions the data give for the
                    \* slot have a data issue (never changes)
    shareLog        \* << >> or <<the last format_share_text call>>

\* The threads of the server process, one per session that runs the script.
VARIABLES
    writers,        \* per thread, its call of storage.py: where it is, and
                    \* the completed_games dict it holds
    generators,     \* per thread, its generate_questions_for_round call:
                    \* where it is, and its locals
    shown,          \* the (user, date, slot) whose result has been shown
    replayed        \* the ones of them answered again afterwards

cacheObs == <<loads, lastLoad, lastGet, lastStat>>
pureObs == <<leader, seedLog>>
storeVars == <<storeFile, sessions, lastSave, completed>>
callObs == <<yearLog, prefetched, chosen, roundIssues, shareLog>>
raceObs == <<writers, generators, shown, replayed>>
auxVars == <<cacheObs, pureObs, storeVars, callObs, raceObs>>

vars == <<upstream, now, data_cache, rng, round, lastDaily, prevDaily, eligible,
          scoreCorrect, scoreLog, auxVars>>
gameVars == <<upstream, now, data_cache, rng, round, lastDaily, prevDaily, eligible>>
scoreVars == <<scoreCorrect, scoreLog>>

EmptyCache == << >>

\* The dates of the model: August 1999 (the last completed season, 1998, is
\* before MIN_YEAR), September 1999 (1999 only), September 2000 (1999-2000).
CLOCKS == { [year |-> 1999, month |-> 8], [year |-> 1999, month |-> 9],
            [year |-> 2000, month |-> 9] }

IdleGame ==
    /\ upstream = World(NoSeason, NoSeason)
    /\ now = [year |-> 1999, month |-> 8]
    /\ data_cache = EmptyCache
    /\ rng = SeedRng(0)
    /\ round = << >>
    /\ lastDaily = << >>
    /\ prevDaily = << >>
    /\ eligible = << >>

IdleScore ==
    /\ scoreCorrect = None
    /\ scoreLog = << >>

ClockYears == 1998..2000
MaxLoads == 2

IdleCacheObs ==
    /\ loads = [y \in ClockYears |-> 0]
    /\ lastLoad = << >>
    /\ lastGet = << >>
    /\ lastStat = << >>

IdleLeader ==
    leader = [stat_df |-> EmptyDF, stat_column |-> NoneStr, called |-> FALSE,
              result |-> << >>]

IdlePure == IdleLeader /\ seedLog = << >>

\* The browser sessions alive at a time: opening the app anew replaces one.
SESSIONS == {1}
USERS == {"u1", "u2"}

IdleStore ==
    /\ storeFile = EmptyStore
    /\ sessions = [s \in SESSIONS |-> SessionDefaults("u1")]
    /\ lastSave = << >>
    /\ completed = {}

\* A round without a data issue.
AnswerableRound == [i \in 1..QUESTIONS_PER_ROUND |-> FALSE]

IdleCalls ==
    /\ yearLog = << >>
    /\ prefetched = << >>
    /\ chosen = << >>
    /\ roundIssues = AnswerableRound
    /\ shareLog = << >>

\* The threads that take part in a race: none has begun.
THREADS == {1, 2}
IdleWriter == [pc |-> "idle"]
IdleGenerator == [pc |-> "idle"]

IdleRace ==
    /\ writers = [t \in THREADS |-> IdleWriter]
    /\ generators = [t \in THREADS |-> IdleGenerator]
    /\ shown = {}
    /\ replayed = {}

IdleAux == IdleCacheObs /\ IdlePure /\ IdleStore /\ IdleCalls /\ IdleRace

(***************************************************************************)
(* SpecGenerate: rounds generated on one day over a fixed provider, by a   *)
(* process whose generator starts anywhere.                                *)
(***************************************************************************)
InitGenerate ==
    /\ upstream \in WORLDS
    /\ now \in CLOCKS
    /\ data_cache = EmptyCache
    /\ rng \in { SeedRng(s) : s \in Seeds }
    /\ round = << >>
    /\ lastDaily = << >>
    /\ prevDaily = << >>
    /\ eligible = << >>
    /\ IdleScore
    /\ IdleAux

\* One call of generate_questions_for_round on the session's cache.
Generate(daily_mode, daily_seed) ==
    LET g == GenerateQuestionsForRound(data_cache, rng, now, upstream,
                                       daily_mode, daily_seed)
        call == << [daily_mode |-> daily_mode, daily_seed |-> daily_seed,
                    questions |-> g.questions] >>
    IN  /\ round' = call
        /\ lastDaily' = IF daily_mode THEN call ELSE lastDaily
        /\ prevDaily' = IF daily_mode /\ lastDaily # << >>
                           /\ lastDaily[1].daily_seed = daily_seed
                        THEN lastDaily ELSE << >>
        /\ data_cache' = g.cache
        /\ rng' = g.rng
        /\ UNCHANGED <<upstream, now, eligible, scoreVars, auxVars>>

\* A new session of the same process: an empty data_cache, the same generator.
NewSession ==
    /\ data_cache # EmptyCache
    /\ data_cache' = EmptyCache
    /\ UNCHANGED <<upstream, now, rng, round, lastDaily, prevDaily, eligible, scoreVars, auxVars>>

NextGenerate ==
    \/ \E s \in Seeds : Generate(TRUE, <<s>>)
    \/ Generate(FALSE, << >>)
    \/ NewSession

SpecGenerate == InitGenerate /\ [][NextGenerate]_vars

(***************************************************************************)
(* SpecEligible: eligibility calls for the season 2000 over a family of     *)
(* provider answers for that season.                                       *)
(***************************************************************************)
\* The raw roster: p1 and p2 vary in position, p2 and p3 share a name, the
\* roster lists Diggs before Brown, and p1 has a second row as a TE.
EligRoster(pos1, pos2) ==
    RosterTable(<< RosterRow("p1", pos1, "Diggs"), RosterRow("p2", pos2, "Brown"),
                   RosterRow("p3", "WR", "Brown"), RosterRow("p4", "TE", "Adams"),
                   RosterRow("p1", "TE", "Diggs"), RosterRow("k1", "K", "Cook") >>)

\* The statistics rows of the family: a row for p1, a row for p2 and a
\* second row for p1, each absent or with one opportunity field positive or
\* with none; the table may lack the targets column.
STAT_SHAPES == {"tgt", "car", "att", "idle"}
ShapedRow(id, shape) ==
    CASE shape = "absent" -> << >>
      [] shape = "tgt" -> << StatsRow(id, NaN, Num(4), Num(5), Num(0)) >>
      [] shape = "car" -> << StatsRow(id, Num(0), NaN, NaN, Num(5)) >>
      [] shape = "att" -> << StatsRow(id, Num(5), NaN, Num(0), NaN) >>
      [] OTHER -> << StatsRow(id, NaN, Num(0), Num(0), NaN) >>
ShapedRows ==
    { ShapedRow("p1", a) \o ShapedRow("p2", b) \o ShapedRow("p1", c) :
        a \in STAT_SHAPES \cup {"absent"}, b \in STAT_SHAPES \cup {"absent"},
        c \in {"absent", "tgt", "idle"} }
EligStats ==
    { StatsTable(rows) : rows \in ShapedRows }
      \cup { Project(StatsTable(rows), StatsTable(rows).cols \ {"targets"}) :
               rows \in { r \in ShapedRows : Len(r) = 1 } }

\* The snap counts of the family: the call raises; p1 played in two games
\* and p2 in none; only p3 and p4 played.
EligSnaps ==
    { Raises,
      Ok(SnapTable(<< SnapRow("f1", Num(3)), SnapRow("f2", Num(0)),
                      SnapRow("f1", Num(4)) >>)),
      Ok(SnapTable(<< SnapRow("f3", Num(6)), SnapRow("f4", Num(1)) >>)) }
EligIds ==
    IdTable(<< IdRow("f1", "p1"), IdRow("f2", "p2"), IdRow("f3", "p3"),
               IdRow("f4", "p4") >>)

EligSeasons ==
    { [rosters |-> Ok(EligRoster(pos1, pos2)), seasonal |-> Ok(stats),
       snaps |-> snaps, ids |-> Ok(EligIds)] :
        pos1 \in {"WR", "RB"}, pos2 \in {"WR", "QB"},
        stats \in EligStats, snaps \in EligSnaps }

ELIGIBLE_LABELS == {"QB", "WR", "RB", "TE", "K"}

InitEligible ==
    /\ upstream \in { World(NoSeason, season) : season \in EligSeasons }
    /\ now = [year |-> 2000, month |-> 9]
    /\ data_cache = EmptyCache
    /\ rng = SeedRng(0)
    /\ round = << >>
    /\ lastDaily = << >>
    /\ prevDaily = << >>
    /\ eligible = << >>
    /\ IdleScore
    /\ IdleAux

\* One call of get_eligible_players_for_autocomplete on the session's cache.
Eligible(position_label, year) ==
    /\ \E players \in GetEligiblePlayers(position_label, year, data_cache, upstream) :
          eligible' = << [position_label |-> position_label, year |-> year,
                          players |-> players] >>
    /\ data_cache' = CacheAfterEligible(position_label, year, data_cache, upstream)
    /\ UNCHANGED <<upstream, now, rng, round, lastDaily, prevDaily, scoreVars, auxVars>>

NextEligible ==
    \E position_label \in ELIGIBLE_LABELS : Eligible(position_label, now.year)

SpecEligible == InitEligible /\ [][NextEligible]_vars

(***************************************************************************)
(* SpecCache: requests of get_data_for_year_cached on one cache, over a    *)
(* family of provider answers for the season 2000 in which every call may  *)
(* raise, answer no rows or lack a column.                                 *)
(***************************************************************************)
CacheRosters ==
    { Ok(FullRoster), Raises, Ok(RosterTable(<< >>)),
      Ok(Project(FullRoster, FullRoster.cols \ {"player_name"})) }

\* Statistics of players the roster does not hold.
StrangerStats ==
    StatsTable(<< StatsRow("x8", Num(1), Num(2), Num(3), Num(4)),
                  StatsRow("x9", Num(5), Num(6), Num(7), Num(8)) >>)

\* Statistics with a position column of their own.
PositionedStats ==
    [cols |-> FullStats.cols \cup {"position"},
     rows |-> [i \in DOMAIN FullStats.rows |->
                 [c \in FullStats.cols \cup {"position"} |->
                     IF c = "position" THEN "WR" ELSE FullStats.rows[i][c]]]]

CacheSeasonal ==
    { Ok(FullStats), Raises, Ok(StatsTable(<< >>)), Ok(StrangerStats),
      Ok(Project(FullStats, FullStats.cols \ {"player_id"})), Ok(PositionedStats) }

FullSnaps ==
    SnapTable(<< SnapRow("f2", Num(10)), SnapRow("f4", Num(0)),
                 SnapRow("f2", Num(5)), SnapRow("f7", Num(9)) >>)
FullIds == IdTable(<< IdRow("f2", "p2"), IdRow("f4", "p4") >>)

CacheSnaps ==
    { Ok(FullSnaps), Raises, Ok(SnapTable(<< >>)),
      Ok(Project(FullSnaps, {"pfr_player_id"})) }
CacheIds == { Ok(FullIds), Raises, Ok(Project(FullIds, {"pfr_id"})) }

CacheSeasons ==
    { [rosters |-> r, seasonal |-> s, snaps |-> n, ids |-> i] :
        r \in CacheRosters, s \in CacheSeasonal, n \in CacheSnaps, i \in CacheIds }

InitCache ==
    /\ upstream \in { World(Healthy, season) : season \in CacheSeasons }
    /\ now = [year |-> 2000, month |-> 9]
    /\ data_cache = EmptyCache
    /\ rng = SeedRng(0)
    /\ round = << >>
    /\ lastDaily = << >>
    /\ prevDaily = << >>
    /\ eligible = << >>
    /\ IdleScore
    /\ IdleAux

\* One call of get_data_for_year_cached(year, data_cache).
GetData(year) ==
    LET need == NeedsLoad(year, data_cache)
    IN  /\ need => loads[year] < MaxLoads
        /\ data_cache' = CacheAfterGet(year, data_cache, upstream)
        /\ loads' = IF need THEN [loads EXCEPT ![year] = @ + 1] ELSE loads
        /\ lastLoad' = IF need
                       THEN << [year |-> year,
                                data |-> LoadDataForYear(upstream[year])] >>
                       ELSE lastLoad
        /\ lastGet' = << [year |-> year, loaded |-> need,
                          data |-> GetDataForYearCached(year, data_cache, upstream)] >>
        /\ UNCHANGED <<upstream, now, rng, round, lastDaily, prevDaily, eligible,
                       scoreVars, pureObs, storeVars, callObs, raceObs, lastStat>>

NextCache == \E year \in ClockYears : GetData(year)

SpecCache == InitCache /\ [][NextCache]_vars

(***************************************************************************)
(* Properties of the cache and the loader (SpecCache).                     *)
(***************************************************************************)
\* C11: on one cache load_data_for_year is invoked at most once per year:
\* a year is in the cache exactly when it was loaded once, and a request
\* returns the stored entry of its year; a year stored as empty is not
\* loaded again.
C11_LoadOncePerYear ==
    /\ \A y \in ClockYears :
          /\ loads[y] <= 1
          /\ loads[y] = 1 <=> y \in DOMAIN data_cache
    /\ lastGet # << >> =>
          /\ lastGet[1].year \in DOMAIN data_cache
          /\ lastGet[1].data = Returned(data_cache[lastGet[1].year])

\* A second request of a season whose roster call raised: nothing is
\* loaded, the stored empty tables are returned.
C11_Witness ==
    /\ lastGet # << >>
    /\ lastGet[1].year = 2000
    /\ ~lastGet[1].loaded
    /\ ~upstream[2000].rosters.ok
    /\ loads[2000] = 1
    /\ data_cache[2000] = EmptyTuple
    /\ lastGet[1].data = EmptyTuple

\* A second request of a season with data returns the stored tables.
C11_WitnessData ==
    /\ lastGet # << >>
    /\ ~lastGet[1].loaded
    /\ loads[lastGet[1].year] = 1
    /\ ~IsEmptyDF(lastGet[1].data[2])

\* A step of the season's acquisition failed: a provider call raised, the
\* roster lacks one of its columns, or the merge met a second position column.
StepFailed(prov) ==
    \/ ~prov.rosters.ok
    \/ ~prov.seasonal.ok
    \/ ~prov.snaps.ok
    \/ ~prov.ids.ok
    \/ ~(ROSTER_COLUMNS \subseteq prov.rosters.df.cols)
    \/ "position" \in prov.seasonal.df.cols

\* C12: when a step of a season's acquisition failed, the dataset a request
\* returns for the season has its roster, its statistics and its snap
\* counts all empty.
C12_AllOrNothing ==
    (lastGet # << >> /\ StepFailed(upstream[lastGet[1].year]))
        => /\ IsEmptyDF(lastGet[1].data[1])
           /\ IsEmptyDF(lastGet[1].data[2])
           /\ IsEmptyDF(lastGet[1].data[3])

LoadedYear == lastLoad[1].year
Loaded == lastLoad[1].data
Answered == upstream[LoadedYear]

\* The raw statistics are empty: the call raised or answered no rows.
RawStatsEmpty(prov) == ~prov.seasonal.ok \/ IsEmptyDF(prov.seasonal.df)

\* C13: load_data_for_year returns its four tables whatever the provider
\* answers.  A failed roster step empties the roster; the statistics are
\* empty whenever the roster or the raw statistics are empty; a failed
\* snap-count step leaves the default snap counts; and no table depends on
\* the answers of another step, except the statistics on the roster.  With
\* the roster acquired and raw statistics of no rows, the roster is filled
\* and the statistics are empty.
C13_LoaderStepsGuarded ==
    lastLoad # << >> =>
        /\ Len(Loaded) = 4
        /\ (~Answered.rosters.ok \/ ~(ROSTER_COLUMNS \subseteq Answered.rosters.df.cols))
              => IsEmptyDF(Loaded[1])
        /\ (IsEmptyDF(Loaded[1]) \/ RawStatsEmpty(Answered)) => IsEmptyDF(Loaded[2])
        /\ (~Answered.snaps.ok \/ ~Answered.ids.ok) => Loaded[3] = DefaultSnapCounts
        /\ Loaded[1] = LoadDataForYear([Answered EXCEPT !.seasonal = Raises,
                                                        !.snaps = Raises,
                                                        !.ids = Raises])[1]
        /\ Loaded[2] = LoadDataForYear([Answered EXCEPT !.snaps = Raises,
                                                        !.ids = Raises])[2]
        /\ Loaded[3] = LoadDataForYear([Answered EXCEPT !.rosters = Raises,
                                                        !.seasonal = Raises])[3]
        /\ (Answered.rosters = Ok(FullRoster) /\ Answered.seasonal = Ok(StatsTable(<< >>)))
              => ~IsEmptyDF(Loaded[1]) /\ IsEmptyDF(Loaded[2])

\* The roster acquired, raw statistics of no rows, snap counts aggregated.
C13_Witness ==
    /\ lastLoad # << >>
    /\ Answered.rosters = Ok(FullRoster)
    /\ Answered.seasonal = Ok(StatsTable(<< >>))
    /\ ~IsEmptyDF(Loaded[1])
    /\ IsEmptyDF(Loaded[2])
    /\ ~IsEmptyDF(Loaded[3])

\* The roster call raised while statistics and snap counts were answered:
\* only the snap counts are filled.
C13_WitnessRosterRaised ==
    /\ lastLoad # << >>
    /\ ~Answered.rosters.ok
    /\ Answered.seasonal = Ok(FullStats)
    /\ IsEmptyDF(Loaded[1])
    /\ IsEmptyDF(Loaded[2])
    /\ ~IsEmptyDF(Loaded[3])
    /\ ~IsEmptyDF(Loaded[4])

\* The merge met a second position column: statistics empty, roster filled.
C13_WitnessMerge ==
    /\ lastLoad # << >>
    /\ Answered.seasonal = Ok(PositionedStats)
    /\ ~IsEmptyDF(Loaded[1])
    /\ IsEmptyDF(Loaded[2])

\* The rows of a table whose player_id is id.
RowsOf(t, id) == { i \in DOMAIN t.rows : t.rows[i]["player_id"] = id }

\* C21: in the statistics load_data_for_year returns, every row has the
\* player_id of a row of the returned roster and that row's position, which
\* is one of the game's positions and not missing; and a player has no more
\* rows than in the raw statistics, so rows of players outside the roster
\* are dropped and the merge adds none.
C21_StatsRowsInRoster ==
    lastLoad # << >> =>
        /\ \A i \in DOMAIN Loaded[2].rows :
              /\ ~IsNull(Loaded[2].rows[i]["position"], "position")
              /\ Loaded[2].rows[i]["position"] \in GAME_POSITIONS
              /\ \E j \in DOMAIN Loaded[1].rows :
                    /\ Loaded[1].rows[j]["player_id"] = Loaded[2].rows[i]["player_id"]
                    /\ Loaded[1].rows[j]["position"] = Loaded[2].rows[i]["position"]
              /\ Cardinality(RowsOf(Loaded[2], Loaded[2].rows[i]["player_id"]))
                    <= Cardinality(RowsOf(Answered.seasonal.df,
                                          Loaded[2].rows[i]["player_id"]))
        /\ Len(Loaded[2].rows) <= Len(Answered.seasonal.df.rows)

\* A roster answered with a player listed twice and a kicker, statistics
\* answered with a player the roster does not hold: the stranger's row is
\* dropped and the others are kept once.
C21_Witness ==
    /\ lastLoad # << >>
    /\ Answered.rosters = Ok(FullRoster)
    /\ Answered.seasonal = Ok(FullStats)
    /\ Cardinality(RowsOf(FullRoster, "p2")) = 2
    /\ RowsOf(FullStats, "x9") # {}
    /\ RowsOf(Loaded[2], "x9") = {}
    /\ Len(Loaded[2].rows) = 4
    /\ Cardinality(RowsOf(Loaded[2], "p2")) = 1

(***************************************************************************)
(* SpecLeader: get_stat_leader on a family of statistics tables.           *)
(***************************************************************************)
MaxLeaderRows == 3
LEADER_CELLS == { Num(0 - 3), Num(7), NaN, None, Junk }

\* A table of n rows for the players p1..pn with the columns player_id,
\* yards (the cells chosen) and tds (never a number).
LeaderTable(cells) ==
    [cols |-> {"player_id", "yards", "tds"},
     rows |-> [i \in DOMAIN cells |->
                 [player_id |-> PLAYER_IDS[i], yards |-> cells[i],
                  tds |-> IF i = 1 THEN Junk ELSE NaN]]]

LeaderTables ==
    LET full == { LeaderTable(cells) :
                    cells \in UNION { [1..n -> LEADER_CELLS] : n \in 0..MaxLeaderRows } }
    IN  full \cup { Project(t, {"yards", "tds"}) : t \in { LeaderTable(<<Num(7)>>) } }
             \cup { Project(t, {"player_id", "tds"}) :
                      t \in { LeaderTable(<<Num(7), Num(7)>>) } }
             \cup { EmptyDF }

InitLeader ==
    /\ IdleGame
    /\ IdleScore
    /\ IdleCacheObs
    /\ IdleStore
    /\ IdleCalls
    /\ IdleRace
    /\ seedLog = << >>
    /\ leader \in { [stat_df |-> t, stat_column |-> NoneStr, called |-> FALSE,
                     result |-> << >>] : t \in LeaderTables }

\* One call of get_stat_leader(stat_df, stat_column).
ResolveLeader(stat_column) ==
    /\ leader' = [leader EXCEPT !.stat_column = stat_column, !.called = TRUE,
                                !.result = GetStatLeader(leader.stat_df, stat_column)]
    /\ UNCHANGED <<gameVars, scoreVars, cacheObs, seedLog, storeVars, callObs, raceObs>>

NextLeader == \E stat_column \in {"yards", "tds"} : ResolveLeader(stat_column)

SpecLeader == InitLeader /\ [][NextLeader]_vars

(***************************************************************************)
(* Properties of the leader resolver (SpecLeader).                         *)
(***************************************************************************)
LeaderRows == leader.stat_df.rows
IsNumeric(i) == LeaderRows[i][leader.stat_column].k = "num"
ValueOf(i) == LeaderRows[i][leader.stat_column].v

\* Nothing to resolve: an empty table, no such column, no player_id column,
\* or no row with a number in the column.
Unresolvable ==
    \/ IsEmptyDF(leader.stat_df)
    \/ leader.stat_column \notin leader.stat_df.cols
    \/ "player_id" \notin leader.stat_df.cols
    \/ \A i \in DOMAIN LeaderRows : ~IsNumeric(i)

\* C14: get_stat_leader returns None exactly when the table is empty, lacks
\* the column or player_id, or holds no number in the column; otherwise it
\* returns the player_id and the number of the first row, in table order,
\* whose number no other row's number exceeds.
C14_LeaderIsFirstMaximum ==
    leader.called =>
        /\ leader.result = << >> <=> Unresolvable
        /\ leader.result # << >> =>
              \E i \in DOMAIN LeaderRows :
                  /\ IsNumeric(i)
                  /\ leader.result[1].player_id = LeaderRows[i]["player_id"]
                  /\ leader.result[1].stat_value = Num(ValueOf(i))
                  /\ \A j \in DOMAIN LeaderRows : IsNumeric(j) => ValueOf(j) <= ValueOf(i)
                  /\ \A j \in 1..(i - 1) : IsNumeric(j) => ValueOf(j) < ValueOf(i)

\* Three rows, the last two tied for the maximum: the second is the leader.
C14_Witness ==
    /\ leader.called
    /\ leader.stat_column = "yards"
    /\ Len(LeaderRows) = 3
    /\ LeaderRows[1]["yards"] = Num(0 - 3)
    /\ LeaderRows[2]["yards"] = Num(7)
    /\ LeaderRows[3]["yards"] = Num(7)
    /\ leader.result = << [player_id |-> "p2", stat_value |-> Num(7)] >>

\* Rows without a number in the column: None.
C14_WitnessNone ==
    /\ leader.called
    /\ Len(LeaderRows) = 3
    /\ leader.stat_column \in leader.stat_df.cols
    /\ "player_id" \in leader.stat_df.cols
    /\ leader.result = << >>

(***************************************************************************)
(* SpecSeed: calls of get_daily_seed_and_date as the UTC clock advances.   *)
(***************************************************************************)
INSTANTS ==
    { [year |-> y, month |-> m, day |-> d, hour |-> h] :
        y \in {2024, 2025}, m \in {1, 11}, d \in {5, 15}, h \in {0, 23} }

UtcDate(t) == [year |-> t.year, month |-> t.month, day |-> t.day]
Later(t, u) ==
    ((t.year * 12 + t.month) * 31 + t.day) * 24 + t.hour
        < ((u.year * 12 + u.month) * 31 + u.day) * 24 + u.hour

InitSeed ==
    /\ upstream = World(NoSeason, NoSeason)
    /\ now \in INSTANTS
    /\ data_cache = EmptyCache
    /\ rng = SeedRng(0)
    /\ round = << >>
    /\ lastDaily = << >>
    /\ prevDaily = << >>
    /\ eligible = << >>
    /\ IdleScore
    /\ IdleCacheObs
    /\ IdleStore
    /\ IdleCalls
    /\ IdleRace
    /\ IdleLeader
    /\ seedLog = << >>

\* One call of get_daily_seed_and_date; the log keeps the last two calls.
CallSeed ==
    LET call == [date |-> UtcDate(now), hour |-> now.hour,
                 result |-> GetDailySeedAndDate(now)]
    IN  /\ seedLog' = IF seedLog = << >> THEN <<call>>
                      ELSE <<seedLog[Len(seedLog)], call>>
        /\ UNCHANGED <<gameVars, scoreVars, cacheObs, leader, storeVars, callObs, raceObs>>

\* The clock moves on.
Advance ==
    /\ \E t \in INSTANTS : Later(now, t) /\ now' = t
    /\ UNCHANGED <<upstream, data_cache, rng, round, lastDaily, prevDaily, eligible,
                   scoreVars, auxVars>>

NextSeed == CallSeed \/ Advance

SpecSeed == InitSeed /\ [][NextSeed]_vars

(***************************************************************************)
(* Properties of the daily seed (SpecSeed).                                *)
(***************************************************************************)
\* The text is YYYY-MM-DD for the date.
IsIsoDate(s, date) ==
    /\ Len(s) = 10
    /\ s[5] = "-" /\ s[8] = "-"
    /\ \A i \in {1, 2, 3, 4, 6, 7, 9, 10} : \E k \in DOMAIN DIGITS : DIGITS[k] = s[i]
    /\ ParseInt(SubSeq(s, 1, 4)) = date.year
    /\ ParseInt(SubSeq(s, 6, 7)) = date.month
    /\ ParseInt(SubSeq(s, 9, 10)) = date.day

\* C15: get_daily_seed_and_date depends on the UTC date only: calls on one
\* date return the same pair, calls on two dates return pairs that differ
\* in the seed and in the text; the seed is the number YYYYMMDD and the
\* text is YYYY-MM-DD.
C15_SeedOfUtcDate ==
    /\ \A i \in DOMAIN seedLog :
          /\ seedLog[i].result.seed
                = seedLog[i].date.year * 10000 + seedLog[i].date.month * 100
                    + seedLog[i].date.day
          /\ IsIsoDate(seedLog[i].result.date_str, seedLog[i].date)
    /\ Len(seedLog) = 2 =>
          /\ seedLog[1].date = seedLog[2].date => seedLog[1].result = seedLog[2].result
          /\ seedLog[1].date # seedLog[2].date =>
                /\ seedLog[1].result.seed # seedLog[2].result.seed
                /\ seedLog[1].result.date_str # seedLog[2].result.date_str

\* Calls on 2024-01-15 and 2024-11-05, whose digits without padding agree.
C15_Witness ==
    /\ Len(seedLog) = 2
    /\ seedLog[1].date = [year |-> 2024, month |-> 1, day |-> 15]
    /\ seedLog[2].date = [year |-> 2024, month |-> 11, day |-> 5]
    /\ seedLog[1].result.seed = 20240115
    /\ seedLog[2].result.seed = 20241105

\* Two calls on one date, at its first and its last hour.
C15_WitnessSameDay ==
    /\ Len(seedLog) = 2
    /\ seedLog[1].date = seedLog[2].date
    /\ seedLog[1].hour # seedLog[2].hour
    /\ seedLog[1].result = seedLog[2].result

(***************************************************************************)
(* SpecFrame: the four operations that read a session's cache, in any      *)
(* order, over a provider with one season that has snap counts.            *)
(***************************************************************************)
InitFrame ==
    /\ upstream \in { World(Healthy, Sparse), World(Sparse, Healthy) }
    /\ now = [year |-> 2000, month |-> 9]
    /\ data_cache = EmptyCache
    /\ rng = SeedRng(0)
    /\ round = << >>
    /\ lastDaily = << >>
    /\ prevDaily = << >>
    /\ eligible = << >>
    /\ IdleScore
    /\ IdleAux

\* One call of get_player_stat_for_question on the session's cache.
PlayerStat(guessed_player_id, question_data) ==
    /\ \E value \in GetPlayerStatForQuestion(guessed_player_id, question_data,
                                              data_cache, upstream) :
          lastStat' = << [player_id |-> guessed_player_id,
                          year |-> question_data.year,
                          stat_category |-> question_data.stat_category,
                          value |-> value] >>
    /\ data_cache' = CacheAfterGet(question_data.year, data_cache, upstream)
    /\ UNCHANGED <<upstream, now, rng, round, lastDaily, prevDaily, eligible,
                   scoreVars, loads, lastLoad, lastGet, pureObs, storeVars, callObs, raceObs>>

NextFrame ==
    \/ \E year \in {1999, 2000} : GetData(year)
    \/ \E s \in {0, 2} : Generate(TRUE, <<s>>)
    \/ \E position_label \in {"QB", "WR"}, year \in {1999, 2000} :
          Eligible(position_label, year)
    \/ \E guessed_player_id \in {"p2"}, year \in {1999, 2000} :
          PlayerStat(guessed_player_id, [year |-> year, stat_category |-> "targets"])

SpecFrame == InitFrame /\ [][NextFrame]_vars

\* C20: no operation on the cache changes the entry stored for a year: after
\* every step each stored year holds the tables it held before the step.
C20_CachedEntryImmutable ==
    [][ \A year \in DOMAIN data_cache :
          year \in DOMAIN data_cache' /\ data_cache'[year] = data_cache[year] ]_vars

\* The eligibility call has cast the identifiers of a stored, filled snap
\* table, after a round was generated and a guessed player's stat read.
C20_Witness ==
    /\ eligible # << >> /\ eligible[1].position_label = "WR"
    /\ eligible[1].year \in DOMAIN data_cache
    /\ ~IsEmptyDF(data_cache[eligible[1].year][1])
    /\ ~IsEmptyDF(data_cache[eligible[1].year][3])
    /\ round # << >>
    /\ lastGet # << >>
    /\ lastStat # << >> /\ lastStat[1].value = Num(7)

(***************************************************************************)
(* SpecDaily: the app in front of one completion store as the UTC clock    *)
(* advances, opened by one user or another.  Every click reruns the        *)
(* script, and a handler that ends in st.rerun() is followed by one more   *)
(* run.                                                                    *)
(***************************************************************************)
DAILY_INSTANTS ==
    { [year |-> 2024, month |-> 1, day |-> 5, hour |-> 23],
      [year |-> 2024, month |-> 1, day |-> 15, hour |-> 0] }

Today == GetDailySeedAndDate(now).date_str

\* What submitting a guess stores for the slot, the points and the stat: the
\* rounds of the model differ in their last slot.
SlotResults(q_idx) ==
    { [emojis |-> FULL5, points |-> MAX_POINTS_PER_QUESTION,
       guessed_stat |-> Float64(7)] }
        \cup IF q_idx + 1 = QUESTIONS_PER_ROUND
             THEN { [emojis |-> EMPTY5, points |-> 0, guessed_stat |-> Int64(7)] }
             ELSE {}

SLOT_RESULTS == UNION { SlotResults(q_idx) : q_idx \in 0..(QUESTIONS_PER_ROUND - 1) }

InitDaily ==
    /\ upstream = World(NoSeason, NoSeason)
    /\ now = [year |-> 2024, month |-> 1, day |-> 5, hour |-> 23]
    /\ data_cache = EmptyCache
    /\ rng = SeedRng(0)
    /\ round = << >>
    /\ lastDaily = << >>
    /\ prevDaily = << >>
    /\ eligible = << >>
    /\ IdleScore
    /\ IdleCacheObs
    /\ IdlePure
    /\ IdleCalls
    /\ IdleRace
    /\ storeFile = EmptyStore
    /\ sessions \in [ SESSIONS ->
                        { ScriptRun(SessionDefaults(user_id), EmptyStore, now) :
                            user_id \in USERS } ]
    /\ lastSave = << >>
    /\ completed = {}

DailyFrame == UNCHANGED <<gameVars, scoreVars, cacheObs, pureObs, callObs, raceObs>>

\* The browser opens the app with user_id in the URL: a new session state.
OpenSession(s, user_id) ==
    /\ sessions' = [sessions EXCEPT
                      ![s] = ScriptRun(SessionDefaults(user_id), storeFile, now)]
    /\ UNCHANGED <<storeFile, lastSave, completed>>
    /\ DailyFrame

\* A rerun that no handler answers.
Rerun(s) ==
    /\ sessions' = [sessions EXCEPT ![s] = ScriptRun(@, storeFile, now)]
    /\ UNCHANGED <<storeFile, lastSave, completed>>
    /\ DailyFrame

\* The mode radio is changed (sidebar, before the daily check).
SwitchMode(s) ==
    LET session == InitSessionState(sessions[s], storeFile, now)
        switched == [ session EXCEPT
                        !.game_mode = IF @ = DAILY THEN PRACTICE ELSE DAILY,
                        !.round_in_progress = FALSE,
                        !.current_questions = << >>,
                        !.show_result = FALSE ]
    IN  /\ sessions' = [sessions EXCEPT ![s] = ScriptRun(switched, storeFile, now)]
        /\ UNCHANGED <<storeFile, lastSave, completed>>
        /\ DailyFrame

\* "Start Today's Challenge" is clicked.
StartDaily(s) ==
    LET session == ScriptRun(sessions[s], storeFile, now)
    IN  /\ StartDailyEnabled(session)
        /\ sessions' = [sessions EXCEPT
                          ![s] = ScriptRun(StartDailyChallenge(session, now, roundIssues),
                                           storeFile, now)]
        /\ UNCHANGED <<storeFile, lastSave, completed>>
        /\ DailyFrame

\* "Start Practice Round" is clicked.
StartPractice(s) ==
    LET session == ScriptRun(sessions[s], storeFile, now)
    IN  /\ StartPracticeEnabled(session)
        /\ sessions' = [sessions EXCEPT
                          ![s] = ScriptRun(StartPracticeRound(session, roundIssues),
                                           storeFile, now)]
        /\ UNCHANGED <<storeFile, lastSave, completed>>
        /\ DailyFrame

\* "Submit Answer" is clicked on the current question, and the run that
\* follows shows the result with the correct answer.
SubmitAnswerIn(s, result) ==
    LET session == ScriptRun(sessions[s], storeFile, now)
        q_idx == session.current_question_index
        answered == [ session EXCEPT
                        !.results = (IntKey(q_idx) :> result) @@ @,
                        !.current_round_total_score = @ + result.points,
                        !.current_round_max_score = @ + MAX_POINTS_PER_QUESTION,
                        !.show_result = TRUE ]
    IN  /\ session.round_in_progress
        /\ q_idx < Len(session.current_questions)
        /\ ~session.current_questions[q_idx + 1]
        /\ ~session.show_result
        /\ sessions' = [sessions EXCEPT ![s] = ScriptRun(answered, storeFile, now)]
        /\ UNCHANGED <<storeFile, lastSave, completed>>
        /\ UNCHANGED <<gameVars, scoreVars, cacheObs, pureObs, callObs, writers,
                       generators>>

\* The submission, with the results the rounds of the model give a slot.
SubmitAnswer(s, result) ==
    /\ result \in SlotResults(ScriptRun(sessions[s], storeFile, now).current_question_index)
    /\ SubmitAnswerIn(s, result)
    /\ UNCHANGED <<shown, replayed>>

\* "Next Question" is clicked on a shown result.
NextQuestion(s) ==
    LET session == ScriptRun(sessions[s], storeFile, now)
        next == [ session EXCEPT !.current_question_index = @ + 1,
                                 !.show_result = FALSE ]
    IN  /\ session.round_in_progress
        /\ session.show_result
        /\ session.current_question_index + 1 < QUESTIONS_PER_ROUND
        /\ sessions' = [sessions EXCEPT ![s] = ScriptRun(next, storeFile, now)]
        /\ UNCHANGED <<storeFile, lastSave, completed>>
        /\ DailyFrame

\* The end of a round whose round_in_progress the handler has cleared: in
\* Daily Challenge mode complete_daily_challenge saves the game and prunes
\* the store; then the script runs again.
FinishRound(s, ended) ==
    LET daily == ended.game_mode = DAILY
        done == IF daily THEN CompleteDailyChallenge(ended) ELSE ended
        saved == SaveCompletedGame(storeFile, Today, done.user_id,
                                   done.daily_total_score, done.daily_max_score,
                                   done.daily_results)
        pruned == CleanupOldGames(saved.file, now, 7)
        file == IF daily THEN pruned ELSE storeFile
    IN  /\ storeFile' = file
        /\ sessions' = [sessions EXCEPT ![s] = ScriptRun(done, file, now)]
        /\ lastSave' = IF daily
                       THEN << [ date_str |-> Today, user_id |-> done.user_id,
                                 score |-> done.daily_total_score,
                                 max_score |-> done.daily_max_score,
                                 results |-> done.daily_results,
                                 ok |-> saved.ok,
                                 before |-> storeFile, after |-> saved.file ] >>
                       ELSE lastSave
        /\ completed' = IF daily /\ saved.ok
                        THEN completed \cup { <<Today, done.user_id>> }
                        ELSE completed

\* "View Final Results" is clicked on the last result.
ViewFinalResults(s) ==
    LET session == ScriptRun(sessions[s], storeFile, now)
    IN  /\ session.round_in_progress
        /\ session.show_result
        /\ session.current_question_index + 1 >= QUESTIONS_PER_ROUND
        /\ FinishRound(s, [session EXCEPT !.round_in_progress = FALSE])
        /\ DailyFrame

\* What skipping a question stores for the slot.
SkippedResult ==
    [emojis |-> EMPTY5, points |-> 0, message |-> "Question skipped due to data issue."]

\* "Skip Question" is clicked on a question with a data issue: the round's
\* scores stay as they are, and the round ends after the last slot.
SkipQuestion(s) ==
    LET session == ScriptRun(sessions[s], storeFile, now)
        q_idx == session.current_question_index
        skipped == [ session EXCEPT
                       !.results = (IntKey(q_idx) :> SkippedResult) @@ @,
                       !.current_question_index = @ + 1 ]
    IN  /\ session.round_in_progress
        /\ q_idx < Len(session.current_questions)
        /\ session.current_questions[q_idx + 1]
        /\ IF skipped.current_question_index >= QUESTIONS_PER_ROUND
           THEN FinishRound(s, [skipped EXCEPT !.round_in_progress = FALSE])
           ELSE /\ sessions' = [sessions EXCEPT
                                  ![s] = ScriptRun(skipped, storeFile, now)]
                /\ UNCHANGED <<storeFile, lastSave, completed>>
        /\ DailyFrame

\* The UTC clock moves on.
Tick ==
    /\ \E t \in DAILY_INSTANTS : Later(now, t) /\ now' = t
    /\ UNCHANGED <<upstream, data_cache, rng, round, lastDaily, prevDaily, eligible,
                   scoreVars, auxVars>>

NextDaily ==
    \/ \E s \in SESSIONS, user_id \in USERS : OpenSession(s, user_id)
    \/ \E s \in SESSIONS : Rerun(s)
    \/ \E s \in SESSIONS : SwitchMode(s)
    \/ \E s \in SESSIONS : StartDaily(s)
    \/ \E s \in SESSIONS : StartPractice(s)
    \/ \E s \in SESSIONS, result \in SLOT_RESULTS : SubmitAnswer(s, result)
    \/ \E s \in SESSIONS : NextQuestion(s)
    \/ \E s \in SESSIONS : ViewFinalResults(s)
    \/ Tick

SpecDaily == InitDaily /\ [][NextDaily]_vars

(***************************************************************************)
(* Properties of the completion store and the daily game (SpecDaily).      *)
(***************************************************************************)
Save == lastSave[1]

\* C17: after save_completed_game(d, u, score, max_score, results) succeeded,
\* get_completed_game(d, u) returns a record with exactly that score, that
\* max_score and those per-slot results, keys and values alike, and
\* has_completed_today(d, u) is true; the record replaces an earlier one of
\* (d, u); every other (date, user) reads as it did before the save.
C17_SavedGameReadBack ==
    (lastSave # << >> /\ Save.ok) =>
        LET got == GetCompletedGame(Save.after, Save.date_str, Save.user_id)
        IN  /\ got # << >>
            /\ got[1].score = Save.score
            /\ got[1].max_score = Save.max_score
            /\ got[1].results = Save.results
            /\ HasCompletedToday(Save.after, Save.date_str, Save.user_id)
            /\ \A date_str \in DOMAIN LoadCompletedGames(Save.before) \cup {Save.date_str},
                  user_id \in USERS :
                    <<date_str, user_id>> # <<Save.date_str, Save.user_id>> =>
                        GetCompletedGame(Save.after, date_str, user_id)
                            = GetCompletedGame(Save.before, date_str, user_id)

\* C18: once complete_daily_challenge has saved the game of user u for the
\* UTC date d, no run of the script while the date is d draws the start
\* button of the daily challenge in a session of u.
C18_OneDailyGamePerDay ==
    \A s \in SESSIONS :
        <<Today, sessions[s].user_id>> \in completed
            => ~StartDailyEnabled(ScriptRun(sessions[s], storeFile, now))

(***************************************************************************)
(* Properties of question generation (SpecGenerate).                       *)
(***************************************************************************)
\* The fields of a question that the daily challenge publishes.
Answer(q) ==
    [position_slot |-> q.position_slot, year |-> q.year,
     stat_category |-> q.stat_category,
     correct_player_id |-> q.correct_player_id,
     correct_stat_value |-> q.correct_stat_value]
Answers(call) == [i \in DOMAIN call.questions |-> Answer(call.questions[i])]

\* C1: two daily-mode calls with the same seed on the same date over the
\* same upstream data, whatever the cache and the generator held before
\* each, agree slot by slot on position_slot, year, stat_category,
\* correct_player_id and correct_stat_value.
C1_DailyDeterministic ==
    prevDaily # << >> => Answers(prevDaily[1]) = Answers(lastDaily[1])

\* The second of two same-seed daily calls ran on a cache that holds its
\* seasons, and its questions span two seasons and name a leader.
C1_Witness ==
    /\ prevDaily # << >>
    /\ round # << >> /\ round[1].daily_mode
    /\ \E i \in DOMAIN round[1].questions :
          /\ ~round[1].questions[i].data_issue
          /\ round[1].questions[i].year \in DOMAIN data_cache
    /\ \E i, j \in DOMAIN round[1].questions :
          round[1].questions[i].year # round[1].questions[j].year

\* C2: a call returns exactly five records, for QB, WR1, WR2, RB, TE in
\* that order, whatever the seed, the date and the provider's answers.
C2_FiveInOrder ==
    round # << >> =>
        /\ Len(round[1].questions) = QUESTIONS_PER_ROUND
        /\ \A i \in 1..QUESTIONS_PER_ROUND :
              round[1].questions[i].position_slot = POSITIONS_FOR_DRAFT[i]

\* A round over a season without usable data, whose slots are all data issues.
C2_Witness ==
    /\ round # << >>
    /\ Len(round[1].questions) = QUESTIONS_PER_ROUND
    /\ \A i \in 1..QUESTIONS_PER_ROUND : round[1].questions[i].data_issue
    /\ round[1].questions[1].year = 1999

\* A round over the degenerate year range (no season completed yet).
C2_WitnessDegenerate ==
    /\ round # << >>
    /\ Len(round[1].questions) = QUESTIONS_PER_ROUND
    /\ round[1].questions[5].year = MIN_YEAR - 1

\* A round mixing leaders and data issues.
C2_WitnessMixed ==
    /\ round # << >>
    /\ \E i, j \in DOMAIN round[1].questions :
          /\ round[1].questions[i].data_issue
          /\ ~round[1].questions[j].data_issue

WR1 == round[1].questions[2]
WR2 == round[1].questions[3]
MaxWrAttempts == Len(STAT_CATEGORIES["WR"]) * 3
SameWrPair ==
    /\ WR1.stat_category # NoneStr
    /\ WR2.stat_category # NoneStr
    /\ WR1.year = WR2.year
    /\ WR1.stat_category = WR2.stat_category

\* C3: the WR loop makes at most 12 attempts; when WR1 and WR2 carry the
\* same (year, statistic) pair with a statistic selected, the WR2 loop ran
\* out of its 12 attempts and took the unchecked fallback, so a WR2
\* statistic found by the loop differs from WR1's pair.
C3_WrDistinctUnlessExhausted ==
    round # << >> =>
        /\ \A i \in DOMAIN round[1].questions :
              round[1].questions[i].attempts <= MaxWrAttempts
        /\ SameWrPair => WR2.fallback /\ WR2.attempts = MaxWrAttempts
        /\ (WR2.stat_category # NoneStr /\ ~WR2.fallback /\ WR1.stat_category # NoneStr
              /\ WR1.year = WR2.year)
           => WR1.stat_category # WR2.stat_category

\* The WR2 loop ran out of attempts and the fallback repeated WR1's pair.
C3_Witness ==
    /\ round # << >>
    /\ SameWrPair
    /\ WR2.fallback

\* The WR2 loop met WR1's pair, retried, and found another statistic.
C3_WitnessRetry ==
    /\ round # << >>
    /\ WR1.stat_category # NoneStr
    /\ WR1.year = WR2.year
    /\ ~WR2.fallback
    /\ WR2.attempts > 0
    /\ WR2.stat_category # NoneStr

\* The dataset generation saw for a question's year.
QuestionData(q) == GetDataForYearCached(q.year, data_cache, upstream)

\* No row of the slot's position holds a number in the question's statistic.
LeaderUnresolvable(q) ==
    LET stats == QuestionData(q)[2]
    IN  \/ q.stat_category \notin stats.cols
        \/ "player_id" \notin stats.cols
        \/ \A i \in DOMAIN stats.rows :
              \/ stats.rows[i]["position"] # SlotPosition(q.position_slot)
              \/ stats.rows[i][q.stat_category].k # "num"

\* C16: a question has data_issue exactly when its year's statistics are
\* empty or lack the position column or no leader resolves for its
\* position and statistic, and exactly when its correct_player_id and
\* correct_stat_value are None (without data_issue both are non-null); a
\* year whose raw statistics have no rows gives data_issue.
C16_DataIssueIff ==
    round # << >> =>
        \A i \in DOMAIN round[1].questions :
            LET q == round[1].questions[i]
                stats == QuestionData(q)[2]
            IN  /\ q.data_issue <=>
                      (IsEmptyDF(stats) \/ "position" \notin stats.cols
                          \/ LeaderUnresolvable(q))
                /\ q.data_issue <=>
                      (q.correct_player_id = NoneStr /\ q.correct_stat_value = None)
                /\ ~q.data_issue =>
                      (q.correct_player_id # NoneStr /\ q.correct_stat_value.k = "num")
                /\ (upstream[q.year].seasonal.ok
                       /\ upstream[q.year].seasonal.df.rows = << >>) => q.data_issue

\* A round with a leader, a slot without a resolvable leader in a season
\* with statistics, and a slot of a season whose raw statistics have no rows.
C16_Witness ==
    /\ round # << >>
    /\ \E i, j, k \in DOMAIN round[1].questions :
          /\ ~round[1].questions[i].data_issue
          /\ round[1].questions[j].data_issue
          /\ round[1].questions[j].stat_category # NoneStr
          /\ round[1].questions[k].data_issue
          /\ upstream[round[1].questions[k].year].seasonal.ok
          /\ upstream[round[1].questions[k].year].seasonal.df.rows = << >>

(***************************************************************************)
(* Properties of the eligibility filter (SpecEligible).                    *)
(***************************************************************************)
Call == eligible[1]
Players == Call.players
Dataset == GetDataForYearCached(Call.year, data_cache, upstream)
PlayerIdsOf(list) == { list[i].player_id : i \in DOMAIN list } \ {NoneStr}

\* The opportunity field of the four game positions.
OpportunityField ==
    [WR |-> "targets", TE |-> "targets", RB |-> "carries", QB |-> "attempts"]

\* The player's statistics hold a positive value of the field; a player
\* without statistics, or a table without the field, counts as 0.
PositiveOpportunity(id, field) ==
    \E i \in DOMAIN Dataset[2].rows :
        /\ Dataset[2].rows[i]["player_id"] = id
        /\ field \in Dataset[2].cols
        /\ Dataset[2].rows[i][field].k = "num"
        /\ Dataset[2].rows[i][field].v > 0

\* The player's aggregated offense_snaps are positive; a player without
\* snap counts counts as 0.
PositiveSnaps(id) ==
    \E i \in DOMAIN Dataset[3].rows :
        /\ Dataset[3].rows[i]["player_id"] = id
        /\ Dataset[3].rows[i]["offense_snaps"].k = "num"
        /\ Dataset[3].rows[i]["offense_snaps"].v > 0

\* The players the rule of eligibility names for a game position.
Qualifying(position) ==
    { Dataset[1].rows[i]["player_id"] : i \in
        { j \in DOMAIN Dataset[1].rows :
            /\ Dataset[1].rows[j]["position"] = position
            /\ \/ PositiveOpportunity(Dataset[1].rows[j]["player_id"],
                                      OpportunityField[position])
               \/ PositiveSnaps(Dataset[1].rows[j]["player_id"]) } }

\* No data, no roster row of the position, or no row that passes the filter.
NothingQualifies ==
    \/ IsEmptyDF(Dataset[1])
    \/ \A i \in DOMAIN Dataset[1].rows :
          Dataset[1].rows[i]["position"] # Call.position_label
    \/ Call.position_label \in GAME_POSITIONS /\ Qualifying(Call.position_label) = {}

\* C9: the list returned by an eligibility call is never empty, holds no
\* player_id twice, is in ascending order of player_name, and is exactly
\* one placeholder entry with id None when there is no data, no roster row
\* of the position, or no row that passes the filter.
C9_EligibleListShape ==
    eligible # << >> =>
        /\ Len(Players) >= 1
        /\ \A i, j \in DOMAIN Players :
              i # j => Players[i].player_id # Players[j].player_id
        /\ (\A i \in DOMAIN Players : Players[i].player_id # NoneStr)
              => \A i \in 1..(Len(Players) - 1) :
                    NameRank(Players[i].player_name)
                        <= NameRank(Players[i + 1].player_name)
        /\ NothingQualifies
              => Len(Players) = 1 /\ Players[1].player_id = NoneStr
        /\ (\E i \in DOMAIN Players : Players[i].player_id = NoneStr)
              => Len(Players) = 1

\* A list of three players, two of one name, from a roster that lists them
\* in another order and statistics that hold one of them twice.
C9_Witness ==
    /\ eligible # << >>
    /\ Len(Players) = 3
    /\ Players[1].player_name = Players[2].player_name
    /\ Players[3].player_id = "p1"
    /\ Len(SelectSeq(Dataset[2].rows, LAMBDA r : r["player_id"] = "p1")) = 2

\* The placeholder for a position whose roster rows all fail the filter.
C9_WitnessNoneActive ==
    /\ eligible # << >>
    /\ Players[1].player_id = NoneStr
    /\ ~IsEmptyDF(Dataset[1])
    /\ \E i \in DOMAIN Dataset[1].rows :
          Dataset[1].rows[i]["position"] = Call.position_label

\* The placeholder for a season without statistics.
C9_WitnessNoData ==
    /\ eligible # << >>
    /\ Players[1].player_id = NoneStr
    /\ IsEmptyDF(Dataset[1])
    /\ upstream[Call.year].rosters.ok

\* C10: for a game position and a season with data, a player is in the
\* returned list exactly when the roster has the player at that position
\* and the player's opportunity field (targets for WR and TE, carries for
\* RB, attempts for QB) or aggregated offense_snaps is positive.
C10_EligibleIff ==
    (eligible # << >> /\ Call.position_label \in GAME_POSITIONS /\ ~IsEmptyDF(Dataset[1]))
        => PlayerIdsOf(Players) = Qualifying(Call.position_label)

\* A running back listed for carries alone beside receivers: p1 is in the
\* RB list by a positive carries field, with targets 0 and no snap counts.
C10_Witness ==
    /\ eligible # << >>
    /\ Call.position_label = "RB"
    /\ PlayerIdsOf(Players) = {"p1"}
    /\ PositiveOpportunity("p1", "carries")
    /\ ~PositiveOpportunity("p1", "targets")
    /\ ~PositiveSnaps("p1")

\* A receiver listed by snap counts alone, beside a receiver left out with
\* positive carries, zero targets and zero snaps.
C10_WitnessSnaps ==
    /\ eligible # << >>
    /\ Call.position_label = "WR"
    /\ "p1" \in PlayerIdsOf(Players)
    /\ ~PositiveOpportunity("p1", "targets")
    /\ PositiveSnaps("p1")
    /\ "p2" \notin PlayerIdsOf(Players)
    /\ PositiveOpportunity("p2", "carries")
    /\ \E i \in DOMAIN Dataset[1].rows :
          /\ Dataset[1].rows[i]["player_id"] = "p2"
          /\ Dataset[1].rows[i]["position"] = "WR"

\* A statistics table without the targets column: no receiver has a
\* positive opportunity field.
C10_WitnessNoColumn ==
    /\ eligible # << >>
    /\ Call.position_label = "WR"
    /\ ~IsEmptyDF(Dataset[2])
    /\ "targets" \notin Dataset[2].cols
    /\ PlayerIdsOf(Players) # {}

(***************************************************************************)
(* Inputs of the scoring engine.                                           *)
(***************************************************************************)
MaxStat == 10

\* Statistic values beyond the dense range: 32 and 20000 give rounding ties,
\* 4000 / 5000 the documented example, 19999 / 20000 and 99999 / 100000
\* percentages just below 100, and a correct value of 2000000 a percentage
\* below 0.0001.
SpecialGuesses == {32, 4000, 19999, 20000, 99999}
SpecialCorrects == {32, 5000, 20000, 100000, 2000000}

DenseInputs == {None, NaN, Junk} \cup { Num(n) : n \in (0 - MaxStat)..MaxStat }
GuessInputs == DenseInputs \cup { Num(n) : n \in SpecialGuesses }
CorrectInputs == DenseInputs \cup { Num(n) : n \in SpecialCorrects }

InitScore ==
    /\ IdleGame
    /\ IdleAux
    /\ scoreCorrect \in CorrectInputs
    /\ scoreLog = << >>

\* One answer scored against the question's correct value; the log keeps the
\* last two results.
SubmitGuess(g) ==
    /\ \E o \in ScoreOutcomes(g, scoreCorrect) :
          LET entry == [guess |-> g, correct |-> scoreCorrect,
                        emojis |-> o.emojis, points |-> o.points]
          IN  scoreLog' = IF Len(scoreLog) = 2
                          THEN <<scoreLog[2], entry>>
                          ELSE Append(scoreLog, entry)
    /\ UNCHANGED <<scoreCorrect, gameVars, auxVars>>

NextScore == \E g \in GuessInputs : SubmitGuess(g)

SpecScore == InitScore /\ [][NextScore]_vars

(***************************************************************************)
(* Properties of the scoring engine (under SpecScore).                     *)
(***************************************************************************)
Scored == { scoreLog[i] : i \in DOMAIN scoreLog }

\* The place of a tier on the ladder, 0 (five black) to 6 (five green).
TierRank(emojis) ==
    CASE emojis = FULL5 -> 6
      [] emojis = "FFFFP" -> 5
      [] emojis = "FFFPE" -> 4
      [] emojis = "FFPEE" -> 3
      [] emojis = "FPEEE" -> 2
      [] emojis = "PEEEE" -> 1
      [] OTHER -> 0

\* C4: score(v, v) is (five green, 10000) for every v > 0, score(0, 0) is
\* (five green, 10000), and score(x, 0) is (five black, 0) for every x # 0.
C4_ScoreFixedPoints ==
    \A e \in Scored :
        /\ (e.guess.k = "num" /\ e.correct = e.guess /\ e.guess.v > 0)
              => (e.emojis = FULL5 /\ e.points = 10000)
        /\ (e.guess = Num(0) /\ e.correct = Num(0))
              => (e.emojis = FULL5 /\ e.points = 10000)
        /\ (e.guess.k = "num" /\ e.guess.v # 0 /\ e.correct = Num(0))
              => (e.emojis = EMPTY5 /\ e.points = 0)

C4_Witness ==
    /\ Len(scoreLog) = 2
    /\ scoreLog[1].guess = Num(7) /\ scoreLog[1].correct = Num(7)
    /\ scoreLog[1].points = 10000
    /\ scoreLog[2].guess = Num(3)

C4_WitnessZero ==
    /\ Len(scoreLog) = 2
    /\ scoreLog[1].guess = Num(0) /\ scoreLog[1].correct = Num(0)
    /\ scoreLog[1].emojis = FULL5
    /\ scoreLog[2].guess = Num(3) /\ scoreLog[2].emojis = EMPTY5

\* C5: for a fixed correct value c > 0 the points and the tier do not decrease
\* as the guess grows from 0, and every guess >= c gets the result of c.
C5_ScoreMonotone ==
    \A i, j \in DOMAIN scoreLog :
        LET a == scoreLog[i]
            b == scoreLog[j]
        IN  (/\ a.correct.k = "num" /\ a.correct.v > 0
             /\ a.guess.k = "num" /\ b.guess.k = "num"
             /\ 0 <= a.guess.v /\ a.guess.v < b.guess.v)
            => /\ a.points <= b.points
               /\ TierRank(a.emojis) <= TierRank(b.emojis)
               /\ a.guess.v >= a.correct.v
                     => (a.points = b.points /\ a.emojis = b.emojis)

C5_Witness ==
    /\ Len(scoreLog) = 2
    /\ scoreLog[1].correct = Num(10)
    /\ scoreLog[1].guess = Num(3) /\ scoreLog[1].points = 3000
    /\ scoreLog[2].guess = Num(8) /\ scoreLog[2].points = 8000
    /\ TierRank(scoreLog[1].emojis) < TierRank(scoreLog[2].emojis)

\* The tier the ladder of C6 gives the exact percentage 100 * g / c, clamped
\* to [0, 100], of a guess g against a correct value c # 0.
LadderTier(g, c) ==
    LET n == IF c < 0 THEN 0 - g ELSE g
        d == Abs(c)
    IN  IF n <= 0 THEN EMPTY5
        ELSE IF n >= d THEN FULL5
        ELSE IF 100 * n >= 80 * d THEN "FFFFP"
        ELSE IF 100 * n >= 60 * d THEN "FFFPE"
        ELSE IF 100 * n >= 40 * d THEN "FFPEE"
        ELSE IF 100 * n >= 20 * d THEN "FPEEE"
        ELSE "PEEEE"

\* C6: for a non-zero correct value the tier is the one of the highest ladder
\* threshold not above the percentage; every percentage strictly between 0
\* and 20 gets one yellow and four black glyphs.
C6_TierLadder ==
    \A e \in Scored :
        (e.correct.k = "num" /\ e.correct.v # 0 /\ e.guess.k = "num")
            => e.emojis = LadderTier(e.guess.v, e.correct.v)

\* C6, the documented example: score(4000, 5000) is (four green and one
\* yellow, 8000).
C6_Example ==
    \A e \in Scored :
        (e.guess = Num(4000) /\ e.correct = Num(5000))
            => (e.emojis = "FFFFP" /\ e.points = 8000)

\* C7: the points are an integer in 0..10000, and for a non-zero correct
\* value they are 100 times the clamped percentage rounded to a nearest
\* integer.
C7_PointsRange ==
    \A e \in Scored :
        /\ e.points \in 0..MAX_POINTS_PER_QUESTION
        /\ (e.correct.k = "num" /\ e.correct.v # 0 /\ e.guess.k # "nan")
              => LET gv == IF e.guess.k = "num" THEN e.guess.v ELSE 0
                     n == IF e.correct.v < 0 THEN 0 - gv ELSE gv
                     d == Abs(e.correct.v)
                 IN  IF n <= 0 THEN e.points = 0
                     ELSE IF n >= d THEN e.points = MAX_POINTS_PER_QUESTION
                     ELSE 2 * Abs(e.points * d - MAX_POINTS_PER_QUESTION * n) <= d

C7_Witness ==
    \E e \in Scored :
        /\ e.guess = Num(1) /\ e.correct = Num(7)
        /\ e.points = 1429

\* C8: a guess that cannot be converted is scored as a guess of 0; a correct
\* value that cannot be converted gives (five black, 0) to a non-zero guess
\* and (five green, 10000) to a guess that converts to zero.
C8_NonNumeric ==
    /\ \A a, b \in Scored :
          (a.guess = Junk /\ b.guess = Num(0))
              => (a.emojis = b.emojis /\ a.points = b.points)
    /\ \A e \in Scored :
          e.correct = Junk
              => IF e.guess.k = "num" /\ e.guess.v # 0
                 THEN e.emojis = EMPTY5 /\ e.points = 0
                 ELSE e.guess.k # "nan"
                          => (e.emojis = FULL5 /\ e.points = 10000)

C8_Witness ==
    /\ Len(scoreLog) = 2
    /\ scoreLog[1].guess = Junk /\ scoreLog[2].guess = Num(0)
    /\ scoreLog[1].correct = Num(0)
    /\ scoreLog[1].points = 10000

C8_WitnessCorrect ==
    /\ Len(scoreLog) = 2
    /\ scoreLog[1].correct = Junk
    /\ scoreLog[1].guess = Junk /\ scoreLog[1].points = 10000
    /\ scoreLog[2].guess = Num(3) /\ scoreLog[2].points = 0

\* C19: the points are 10000 exactly when the tier is five green; every lower
\* tier comes with fewer than 10000 points.
C19_PerfectIffFullPoints ==
    \A e \in Scored : (e.points = MAX_POINTS_PER_QUESTION) <=> (e.emojis = FULL5)

(***************************************************************************)
(* SpecYear: select_random_year_for_question at dates before, at and after *)
(* the first season and the last one, on any state of the generator.       *)
(***************************************************************************)
YEAR_CLOCKS ==
    { [year |-> y, month |-> m] : y \in {1998, 1999, 2000, 2023, 2024, 2030},
                                  m \in {1, 8, 9, 12} }

\* The draws a generator can be about to give: enough for every year of the
\* widest range.
YearDraws == 0..(MAX_YEAR - MIN_YEAR)

InitYear ==
    /\ upstream = World(NoSeason, NoSeason)
    /\ now \in YEAR_CLOCKS
    /\ data_cache = EmptyCache
    /\ rng \in { [x |-> x, inc |-> inc] : x \in YearDraws, inc \in 0..(RngIncs - 1) }
    /\ round = << >>
    /\ lastDaily = << >>
    /\ prevDaily = << >>
    /\ eligible = << >>
    /\ IdleScore
    /\ IdleAux

\* One call of select_random_year_for_question().
PickYear ==
    /\ yearLog' = << [now |-> now, year |-> SelectRandomYear(now, rng).year] >>
    /\ rng' = SelectRandomYear(now, rng).rng
    /\ UNCHANGED <<upstream, now, data_cache, round, lastDaily, prevDaily, eligible,
                   scoreVars, cacheObs, pureObs, storeVars, prefetched, chosen,
                   roundIssues, shareLog, raceObs>>

\* The clock moves to a later month.
LaterMonth ==
    /\ \E d \in YEAR_CLOCKS :
          /\ d.year > now.year \/ (d.year = now.year /\ d.month > now.month)
          /\ now' = d
    /\ UNCHANGED <<upstream, data_cache, rng, round, lastDaily, prevDaily, eligible,
                   scoreVars, auxVars>>

NextYear == PickYear \/ LaterMonth

SpecYear == InitYear /\ [][NextYear]_vars

\* C22: with U the smaller of 2023 and the current UTC year, less one before
\* September, select_random_year_for_question returns a year of 1999..U
\* when U >= 1999 and U itself when U < 1999; from September 1999 on the
\* year is in 1999..2023 and at most U.
C22_YearInRange ==
    yearLog # << >> =>
        LET at == yearLog[1].now
            y == yearLog[1].year
            last == IF at.month < 9 THEN at.year - 1 ELSE at.year
            U == IF last > 2023 THEN 2023 ELSE last
        IN  /\ U >= 1999 => (1999 <= y /\ y <= U)
            /\ U < 1999 => y = U
            /\ (at.year > 1999 \/ (at.year = 1999 /\ at.month >= 9))
                  => (y \in 1999..2023 /\ y <= last)

\* In August 2000 the year 1999 is returned, the 2000 season not being over.
C22_Witness ==
    /\ yearLog # << >>
    /\ yearLog[1].now = [year |-> 2000, month |-> 8]
    /\ yearLog[1].year = 1999

\* In 2030 the last season of the data, 2023, is returned.
C22_WitnessCeiling ==
    /\ yearLog # << >>
    /\ yearLog[1].now.year = 2030
    /\ yearLog[1].year = 2023

\* In August 1999 no season is complete: 1998 is returned.
C22_WitnessBelowFloor ==
    /\ yearLog # << >>
    /\ yearLog[1].now = [year |-> 1999, month |-> 8]
    /\ yearLog[1].year = 1998

(***************************************************************************)
(* SpecPlay: the questions of a round played in the app: the player list   *)
(* of a question is prefetched, and a player of the list is submitted.     *)
(***************************************************************************)
\* prefetch_eligible_players(question_data): the lists the call can return.
PrefetchEligiblePlayers(question_data, cache, provider) ==
    IF question_data.data_issue \/ question_data.correct_player_id = NoneStr
    THEN {Sentinel("Error loading players")}
    ELSE GetEligiblePlayers(SlotPosition(question_data.position_slot),
                            question_data.year, cache, provider)

\* The options of the select box: the entries that carry a player.
Options(players) == SelectSeq(players, LAMBDA opt : opt.player_id # NoneStr)

InitPlay ==
    /\ upstream \in WORLDS
    /\ now \in CLOCKS
    /\ data_cache = EmptyCache
    /\ rng = SeedRng(0)
    /\ round = << >>
    /\ lastDaily = << >>
    /\ prevDaily = << >>
    /\ eligible = << >>
    /\ IdleScore
    /\ IdleAux

\* The player list of question q_idx is loaded for its select box.
Prefetch(q_idx) ==
    /\ round # << >>
    /\ q_idx \in DOMAIN round[1].questions
    /\ LET q_data == round[1].questions[q_idx]
       IN  /\ \E players \in PrefetchEligiblePlayers(q_data, data_cache, upstream) :
                prefetched' = << [q_data |-> q_data, players |-> players] >>
           /\ data_cache' = IF q_data.data_issue \/ q_data.correct_player_id = NoneStr
                            THEN data_cache
                            ELSE CacheAfterEligible(SlotPosition(q_data.position_slot),
                                                    q_data.year, data_cache, upstream)
    /\ chosen' = << >>
    /\ UNCHANGED <<upstream, now, rng, round, lastDaily, prevDaily, eligible,
                   scoreVars, cacheObs, pureObs, storeVars, yearLog, roundIssues,
                   shareLog, raceObs>>

\* An option of the prefetched list is submitted: its statistic is looked up
\* and scored against the question's correct value.
SubmitOption(k) ==
    /\ prefetched # << >>
    /\ k \in DOMAIN Options(prefetched[1].players)
    /\ LET q_data == prefetched[1].q_data
           selected_id == Options(prefetched[1].players)[k].player_id
       IN  /\ \E guessed_stat \in GetPlayerStatForQuestion(selected_id, q_data,
                                                           data_cache, upstream) :
                \E o \in ScoreOutcomes(guessed_stat, q_data.correct_stat_value) :
                   chosen' = << [q_data |-> q_data, selected_id |-> selected_id,
                                 guessed_stat |-> guessed_stat,
                                 emojis |-> o.emojis, points |-> o.points] >>
           /\ data_cache' = CacheAfterGet(q_data.year, data_cache, upstream)
    /\ UNCHANGED <<upstream, now, rng, round, lastDaily, prevDaily, eligible,
                   scoreVars, cacheObs, pureObs, storeVars, yearLog, prefetched,
                   roundIssues, shareLog, raceObs>>

NextPlay ==
    \/ \E s \in {0, 2} : Generate(TRUE, <<s>>)
    \/ Generate(FALSE, << >>)
    \/ \E q_idx \in 1..QUESTIONS_PER_ROUND : Prefetch(q_idx)
    \/ \E k \in 1..Len(PLAYER_IDS) : SubmitOption(k)

SpecPlay == InitPlay /\ [][NextPlay]_vars

\* C23: the leader of a question without a data issue is an option of the
\* question's player list, and submitting the leader earns 10000 points.
C23_QuestionAnswerable ==
    /\ (prefetched # << >> /\ ~prefetched[1].q_data.data_issue)
          => \E k \in DOMAIN prefetched[1].players :
                prefetched[1].players[k].player_id
                    = prefetched[1].q_data.correct_player_id
    /\ (chosen # << >> /\ chosen[1].selected_id = chosen[1].q_data.correct_player_id)
          => chosen[1].points = MAX_POINTS_PER_QUESTION

(***************************************************************************)
(* format_share_text, and SpecShare: one user's daily round over rounds    *)
(* with and without data issues, up to the results page that follows it.   *)
(***************************************************************************)
\* int((total_score / max_score) * 100) on floats: the whole part of the
\* percentage, or one less when the percentage is a whole number that the
\* float product can fall short of.
SharePercent(total_score, max_score) ==
    { (100 * total_score) \div max_score }
        \cup IF (100 * total_score) % max_score = 0
                /\ 0 < total_score /\ total_score < max_score
             THEN { ((100 * total_score) \div max_score) - 1 } ELSE {}

\* The glyph lines: one per question index whose integer key has a result.
RECURSIVE GlyphLines(_, _, _)
GlyphLines(results, questions, i) ==
    IF i >= Len(questions) THEN << >>
    ELSE (IF IntKey(i) \in DOMAIN results
          THEN << [line |-> "glyphs", emojis |-> results[IntKey(i)].emojis] >>
          ELSE << >>)
         \o GlyphLines(results, questions, i + 1)

\* format_share_text(results, questions, total_score, max_score, game_date):
\* the texts the call can return, as their lines, or that it raises
\* ZeroDivisionError.
FormatShareText(results, questions, total_score, max_score, game_date) ==
    IF max_score = 0 THEN { [raised |-> TRUE, lines |-> << >>] }
    ELSE { [raised |-> FALSE,
            lines |-> << [line |-> "heading", game_date |-> game_date],
                         [line |-> "score", total_score |-> total_score,
                          max_score |-> max_score, percent |-> percent],
                         [line |-> "blank"] >>
                      \o GlyphLines(results, questions, 0)] :
             percent \in SharePercent(total_score, max_score) }

\* The rounds of the day: no data issue, one in the last slot, in two
\* slots, in every slot.
SHARE_ROUNDS ==
    { AnswerableRound,
      [i \in 1..QUESTIONS_PER_ROUND |-> i = QUESTIONS_PER_ROUND],
      [i \in 1..QUESTIONS_PER_ROUND |-> i \in {1, 3}],
      [i \in 1..QUESTIONS_PER_ROUND |-> TRUE] }

InitShare ==
    /\ upstream = World(NoSeason, NoSeason)
    /\ now = [year |-> 2024, month |-> 1, day |-> 5, hour |-> 23]
    /\ data_cache = EmptyCache
    /\ rng = SeedRng(0)
    /\ round = << >>
    /\ lastDaily = << >>
    /\ prevDaily = << >>
    /\ eligible = << >>
    /\ IdleScore
    /\ IdleCacheObs
    /\ IdlePure
    /\ yearLog = << >>
    /\ prefetched = << >>
    /\ chosen = << >>
    /\ roundIssues \in SHARE_ROUNDS
    /\ shareLog = << >>
    /\ IdleRace
    /\ storeFile = EmptyStore
    /\ sessions = [s \in SESSIONS |-> ScriptRun(SessionDefaults("u1"), EmptyStore, now)]
    /\ lastSave = << >>
    /\ completed = {}

\* A run of the script in Daily Challenge mode after the round: the results
\* page is drawn, and with it the share text.
RenderResults(s) ==
    LET session == ScriptRun(sessions[s], storeFile, now)
    IN  /\ ~session.round_in_progress
        /\ session.game_mode = DAILY
        /\ session.game_completed_daily
        /\ session.daily_results # << >>
        /\ \E text \in FormatShareText(session.daily_results,
                                       session.current_questions,
                                       session.daily_total_score,
                                       session.daily_max_score,
                                       session.game_date_daily) :
              shareLog' = << [results |-> session.daily_results,
                              questions |-> session.current_questions,
                              total_score |-> session.daily_total_score,
                              max_score |-> session.daily_max_score,
                              text |-> text] >>
        /\ sessions' = [sessions EXCEPT ![s] = session]
        /\ UNCHANGED <<storeFile, lastSave, completed>>
        /\ UNCHANGED <<gameVars, scoreVars, cacheObs, pureObs, yearLog, prefetched,
                       chosen, roundIssues, raceObs>>

NextShare ==
    \/ \E s \in SESSIONS : StartDaily(s)
    \/ \E s \in SESSIONS, result \in SLOT_RESULTS : SubmitAnswer(s, result)
    \/ \E s \in SESSIONS : SkipQuestion(s)
    \/ \E s \in SESSIONS : NextQuestion(s)
    \/ \E s \in SESSIONS : ViewFinalResults(s)
    \/ \E s \in SESSIONS : RenderResults(s)
    \/ \E s \in SESSIONS : SwitchMode(s)

SpecShare == InitShare /\ [][NextShare]_vars

\* C24: for the results and scores of every completed daily round, format_share_text
\* returns its text, which starts with the date heading, the score line and a blank
\* line; it does not raise.
C24_ShareTextDefined ==
    shareLog # << >> =>
        /\ ~shareLog[1].text.raised
        /\ Len(shareLog[1].text.lines) >= 3
        /\ shareLog[1].text.lines[1].line = "heading"
        /\ shareLog[1].text.lines[2].line = "score"

(***************************************************************************)
(* SpecStore: the threads of the sessions call save_completed_game and     *)
(* cleanup_old_games on the one file.  A call reads the file, works on the *)
(* dict it read, and writes the file; another thread's read or write may   *)
(* fall between the two.  A write is taken whole.                          *)
(***************************************************************************)
\* save_completed_game up to its write: the dict it is about to dump.
UpdatedGames(file, date_str, user_id, score, max_score, results) ==
    LET completed_games == LoadCompletedGames(file)
        users == IF date_str \in DOMAIN completed_games
                 THEN completed_games[date_str] ELSE << >>
        record == [score |-> score, max_score |-> max_score, results |-> results]
    IN  (date_str :> ((user_id :> record) @@ users)) @@ completed_games

\* cleanup_old_games up to its write: the dict it is about to dump.
FilteredGames(file, now_utc, days_to_keep) ==
    LET completed_games == LoadCompletedGames(file)
        kept == { date_str \in DOMAIN completed_games :
                    DaysOld(now_utc, date_str) <= days_to_keep }
    IN  [ date_str \in kept |-> completed_games[date_str] ]

\* The round a user of the model completed: one answer, the rest skipped.
StoredResults(user_id) ==
    (IntKey(0) :> [emojis |-> FULL5, points |-> MAX_POINTS_PER_QUESTION,
                   guessed_stat |-> Float64(7)])
        @@ [ key \in { IntKey(q) : q \in 1..(QUESTIONS_PER_ROUND - 1) } |->
                SkippedResult ]

\* The days on which the file's first record, if any, was saved.
PAST_INSTANTS ==
    { [year |-> 2023, month |-> 12, day |-> 20, hour |-> 23],
      [year |-> 2024, month |-> 1, day |-> 4, hour |-> 23] }

STORES ==
    { EmptyStore }
        \cup { SaveCompletedGame(EmptyStore, GetDailySeedAndDate(d).date_str, "u2",
                                 MAX_POINTS_PER_QUESTION, MAX_POINTS_PER_QUESTION,
                                 StoredResults("u2")).file : d \in PAST_INSTANTS }

KeysOf(file) ==
    { <<date_str, user_id>> \in
          (DOMAIN LoadCompletedGames(file)) \X USERS :
              user_id \in DOMAIN LoadCompletedGames(file)[date_str] }

InitStore ==
    /\ upstream = World(NoSeason, NoSeason)
    /\ now \in DAILY_INSTANTS
    /\ data_cache = EmptyCache
    /\ rng = SeedRng(0)
    /\ round = << >>
    /\ lastDaily = << >>
    /\ prevDaily = << >>
    /\ eligible = << >>
    /\ IdleScore
    /\ IdleCacheObs
    /\ IdlePure
    /\ IdleCalls
    /\ storeFile \in STORES
    /\ sessions = [s \in SESSIONS |-> SessionDefaults("u1")]
    /\ lastSave = << >>
    /\ completed = KeysOf(storeFile)
    /\ writers = [t \in THREADS |-> IdleWriter]
    /\ generators = [t \in THREADS |-> IdleGenerator]
    /\ shown = {}
    /\ replayed = {}

StoreFrame ==
    UNCHANGED <<gameVars, scoreVars, cacheObs, pureObs, callObs, sessions, lastSave,
                generators, shown, replayed>>

\* A thread enters save_completed_game for today's round of user_id and
\* builds the dict from the file as it is now (lines 37-50).
SaveRead(t, user_id) ==
    /\ writers[t].pc = "idle"
    /\ \A other \in THREADS :
          writers[other].pc = "save" => writers[other].user_id # user_id
    /\ writers' = [writers EXCEPT ![t] =
                     [pc |-> "save", date_str |-> Today, user_id |-> user_id,
                      completed_games |->
                          UpdatedGames(storeFile, Today, user_id,
                                       MAX_POINTS_PER_QUESTION,
                                       MAX_POINTS_PER_QUESTION,
                                       StoredResults(user_id))]]
    /\ UNCHANGED <<storeFile, completed>>
    /\ StoreFrame

\* The thread dumps its dict over the file and returns True (lines 52-55).
SaveWrite(t) ==
    /\ writers[t].pc = "save"
    /\ storeFile' = StoreFile(JsonGames(writers[t].completed_games))
    /\ completed' = completed \cup { <<writers[t].date_str, writers[t].user_id>> }
    /\ writers' = [writers EXCEPT ![t] = IdleWriter]
    /\ StoreFrame

\* A thread enters cleanup_old_games(7) and filters the dict it read
\* (lines 77-97).
CleanupRead(t) ==
    /\ writers[t].pc = "idle"
    /\ writers' = [writers EXCEPT ![t] =
                     [pc |-> "cleanup",
                      completed_games |-> FilteredGames(storeFile, now, 7)]]
    /\ UNCHANGED <<storeFile, completed>>
    /\ StoreFrame

\* The thread dumps the filtered dict over the file (lines 99-103).
CleanupWrite(t) ==
    /\ writers[t].pc = "cleanup"
    /\ storeFile' = StoreFile(writers[t].completed_games)
    /\ writers' = [writers EXCEPT ![t] = IdleWriter]
    /\ UNCHANGED completed
    /\ StoreFrame

NextStore ==
    \/ \E t \in THREADS, user_id \in USERS : SaveRead(t, user_id)
    \/ \E t \in THREADS : SaveWrite(t)
    \/ \E t \in THREADS : CleanupRead(t)
    \/ \E t \in THREADS : CleanupWrite(t)

SpecStore == InitStore /\ [][NextStore]_vars

\* The calls have all returned.
StoreQuiet == \A t \in THREADS : writers[t].pc = "idle"

\* C25: once the concurrent save_completed_game and cleanup_old_games calls
\* have returned, get_completed_game returns a record for every (date, user)
\* that was saved and is at most seven days old, whatever the order of the
\* calls' reads and writes was.
C25_NoRecordLost ==
    StoreQuiet =>
        \A key \in completed :
            DaysOld(now, key[1]) <= 7
                => GetCompletedGame(storeFile, key[1], key[2]) # << >>

\* Two saves for different users whose reads both precede the writes.
C25_TwoSavesLoseOne ==
    ~ ( StoreQuiet /\ { <<Today, "u1">>, <<Today, "u2">> } \subseteq completed
        /\ \E user_id \in USERS : GetCompletedGame(storeFile, Today, user_id) = << >>
        /\ \E kept \in USERS : GetCompletedGame(storeFile, Today, kept) # << >> )

(***************************************************************************)
(* SpecRace: the threads of two sessions run generate_questions_for_round  *)
(* at the same time.  Each has its own data_cache and locals; the          *)
(* generator of the random module is the process's.  A thread is switched  *)
(* out at the earliest where it waits for its data: after random.seed,     *)
(* after a slot's year is drawn and after a slot is appended.  The         *)
(* scheduler lets a thread take over from a running one MaxTakeovers       *)
(* times.                                                                  *)
(***************************************************************************)
MaxTakeovers == 1

\* The seeds of the daily calls and the arguments of a call.
RACE_SEEDS == {0, 2}
RACE_CALLS ==
    { [daily_mode |-> TRUE, daily_seed |-> <<s>>] : s \in RACE_SEEDS }
        \cup { [daily_mode |-> FALSE, daily_seed |-> << >>] }

InitRace ==
    /\ upstream \in WORLDS
    /\ now = [year |-> 2000, month |-> 9]
    /\ data_cache = EmptyCache
    /\ rng \in { SeedRng(s) : s \in RACE_SEEDS }
    /\ round = << >>
    /\ lastDaily = << >>
    /\ prevDaily = << >>
    /\ eligible = << >>
    /\ IdleScore
    /\ IdleAux

RaceFrame ==
    UNCHANGED <<upstream, now, data_cache, round, lastDaily, prevDaily, eligible,
                scoreVars, cacheObs, pureObs, storeVars, callObs, writers, shown,
                replayed>>

\* Thread t runs while another thread is in the middle of its call.
InCall(g) == g.pc \in {"year", "slot"}
TakesOver(t) == \E u \in THREADS \ {t} : InCall(generators[u]) /\ generators[u].on
Takeovers(t) == IF generators[t].pc = "idle" THEN 0 ELSE generators[t].takeovers
MayRun(t) == TakesOver(t) => Takeovers(t) < MaxTakeovers

\* The threads once t has run a step that leaves it holding g.
Scheduled(t, g) ==
    [ u \in THREADS |->
        IF u = t
        THEN [g EXCEPT !.on = TRUE,
                       !.takeovers = Takeovers(t) + IF TakesOver(t) THEN 1 ELSE 0]
        ELSE IF generators[u].pc = "idle" THEN generators[u]
        ELSE [generators[u] EXCEPT !.on = FALSE] ]

\* A thread enters generate_questions_for_round(data_cache, daily_mode,
\* daily_seed) with its session's empty cache (lines 122-126).
BeginRound(t, call) ==
    /\ generators[t].pc = "idle"
    /\ MayRun(t)
    /\ rng' = IF call.daily_mode /\ call.daily_seed # << >>
              THEN SeedRng(call.daily_seed[1]) ELSE rng
    /\ generators' = Scheduled(t,
                        [pc |-> "year", daily_mode |-> call.daily_mode,
                         daily_seed |-> call.daily_seed, i |-> 1,
                         question_year |-> 0, questions |-> << >>,
                         cache |-> EmptyCache, used |-> {},
                         on |-> TRUE, takeovers |-> 0])
    /\ RaceFrame

\* The thread draws the year of its next slot (line 129).
DrawYear(t) ==
    LET g == generators[t]
        picked == SelectRandomYear(now, rng)
    IN  /\ g.pc = "year"
        /\ MayRun(t)
        /\ rng' = picked.rng
        /\ generators' = Scheduled(t, [g EXCEPT !.pc = "slot",
                                                !.question_year = picked.year])
        /\ RaceFrame

\* What the thread holds after the slot, from the slot's body.
AfterSlot(g, acc) ==
    [g EXCEPT !.pc = IF g.i >= Len(POSITIONS_FOR_DRAFT) THEN "done" ELSE "year",
              !.i = @ + 1,
              !.questions = acc.questions,
              !.cache = acc.cache,
              !.used = acc.used]

\* The thread loads the year's data and finishes the slot (lines 132-206).
FillSlot(t) ==
    LET g == generators[t]
        acc == SlotBody(g.i,
                   [questions |-> g.questions, cache |-> g.cache, rng |-> rng,
                    used |-> g.used],
                   [year |-> g.question_year, rng |-> rng],
                   CacheAfterGet(g.question_year, g.cache, upstream))
    IN  /\ g.pc = "slot"
        /\ MayRun(t)
        /\ rng' = acc.rng
        /\ generators' = Scheduled(t, AfterSlot(g, acc))
        /\ RaceFrame

NextRace ==
    \/ \E t \in THREADS, call \in RACE_CALLS : BeginRound(t, call)
    \/ \E t \in THREADS : DrawYear(t)
    \/ \E t \in THREADS : FillSlot(t)

SpecRace == InitRace /\ [][NextRace]_vars

\* What a round asks, slot by slot.
RoundKey(q) ==
    [position_slot |-> q.position_slot, year |-> q.year,
     stat_category |-> q.stat_category, correct_player_id |-> q.correct_player_id]
RoundKeys(questions) == [i \in DOMAIN questions |-> RoundKey(questions[i])]

\* The same call run alone.
Alone(g) ==
    GenerateQuestionsForRound(EmptyCache, rng, now, upstream, g.daily_mode,
                              g.daily_seed).questions

\* C26: a daily-mode call with seed s that ran while another session's call
\* drew from the same generator returns the (slot, year, stat_category,
\* correct_player_id) sequence that the same call returns run alone.
C26_DailySameUnderOverlap ==
    \A t \in THREADS :
        generators[t].pc = "done" /\ generators[t].daily_mode
            => RoundKeys(generators[t].questions) = RoundKeys(Alone(generators[t]))

\* A daily call during which no other thread was in its call returns what it
\* returns alone.
C26_AloneAgrees ==
    \A t \in THREADS :
        /\ generators[t].pc = "done"
        /\ generators[t].daily_mode
        /\ \A other \in THREADS \ {t} : generators[other].pc = "idle"
        => RoundKeys(generators[t].questions) = RoundKeys(Alone(generators[t]))

(***************************************************************************)
(* SpecReplay: one user's browser on one date.  Every scored answer given  *)
(* in Daily Challenge mode is recorded with the slot it was given for: the *)
(* first one for a (user, date, slot) in shown, a later one in replayed.   *)
(***************************************************************************)
\* What a submission can store for a slot: a perfect guess or a miss.  The
\* user of the model knows the later slots' answers.
REPLAY_RESULTS ==
    { [emojis |-> FULL5, points |-> MAX_POINTS_PER_QUESTION,
       guessed_stat |-> Float64(7)],
      [emojis |-> EMPTY5, points |-> 0, guessed_stat |-> Float64(3)] }
ReplayResults(q_idx) ==
    { result \in REPLAY_RESULTS : q_idx > 1 => result.points = MAX_POINTS_PER_QUESTION }

InitReplay ==
    /\ upstream = World(NoSeason, NoSeason)
    /\ now = [year |-> 2024, month |-> 1, day |-> 5, hour |-> 23]
    /\ data_cache = EmptyCache
    /\ rng = SeedRng(0)
    /\ round = << >>
    /\ lastDaily = << >>
    /\ prevDaily = << >>
    /\ eligible = << >>
    /\ IdleScore
    /\ IdleCacheObs
    /\ IdlePure
    /\ IdleCalls
    /\ IdleRace
    /\ storeFile = EmptyStore
    /\ sessions = [s \in SESSIONS |-> ScriptRun(SessionDefaults("u1"), EmptyStore, now)]
    /\ lastSave = << >>
    /\ completed = {}

\* The slot the session is at, as (user, date, slot).
SlotKey(session) ==
    [user_id |-> session.user_id, date_str |-> Today,
     q_idx |-> session.current_question_index]
ShownKeys == { [user_id |-> r.user_id, date_str |-> r.date_str, q_idx |-> r.q_idx] :
                 r \in shown }

\* "Submit Answer" is clicked: the answer is scored and its result shown.
SubmitScored(s, result) ==
    LET session == ScriptRun(sessions[s], storeFile, now)
        key == SlotKey(session)
        first == [user_id |-> key.user_id, date_str |-> key.date_str,
                  q_idx |-> key.q_idx, points |-> result.points]
    IN  /\ result \in ReplayResults(key.q_idx)
        /\ SubmitAnswerIn(s, result)
        /\ shown' = IF session.game_mode = DAILY /\ key \notin ShownKeys
                    THEN shown \cup {first} ELSE shown
        /\ replayed' = IF session.game_mode = DAILY /\ key \in ShownKeys
                       THEN replayed \cup {key} ELSE replayed

NextReplay ==
    \/ \E s \in SESSIONS : SwitchMode(s)
    \/ \E s \in SESSIONS : StartDaily(s)
    \/ \E s \in SESSIONS, result \in REPLAY_RESULTS : SubmitScored(s, result)
    \/ \E s \in SESSIONS : NextQuestion(s)
    \/ \E s \in SESSIONS : ViewFinalResults(s)

SpecReplay == InitReplay /\ [][NextReplay]_vars

\* C27: in Daily Challenge mode no scored answer is submitted for a slot of
\* the date's round whose result the user has already been shown, and the
\* game saved for (date, user) holds, slot by slot, the points of the first
\* answers.
C27_AnsweredOnce ==
    /\ replayed = {}
    /\ lastSave # << >> /\ Save.ok
          => \A r \in shown :
                r.user_id = Save.user_id /\ r.date_str = Save.date_str
                    => Save.results[IntKey(r.q_idx)].points = r.points

\* A round played from start to end without leaving it is answered once.
C27_StraightRoundOnce ==
    lastSave # << >> /\ Save.ok /\ replayed = {}
        => \A r \in shown :
              r.user_id = Save.user_id /\ r.date_str = Save.date_str
                  => Save.results[IntKey(r.q_idx)].points = r.points

\* The saved score differs from the score of the first answers.
C27_SavedFromReplay ==
    ~ ( lastSave # << >> /\ Save.ok
        /\ \E r \in shown : Save.results[IntKey(r.q_idx)].points # r.points )

=============================================================================
